---------------------------- MODULE Spec2Model ----------------------------
(***************************************************************************)
(* The_busboy: a waiter's bot.  Two process-wide stores (the menu catalog  *)
(* of models/menu.py and the order store of models/orders.py) and a        *)
(* per-session dialogue (handlers/*.py) that reads and mutates them.       *)
(*                                                                         *)
(* Strings.  A Python string is modelled as the sequence of its words,     *)
(* text.split(" "): "Стол 5" is <<"Stol", "5">>.  The empty string is      *)
(* <<"">>, and <<>> stands for None where a string is expected.  Words are *)
(* written in Latin transliteration, the originals are given in comments.  *)
(* For ids None is 0 (ids start at 1, and the code tests ids by truth).    *)
(***************************************************************************)
EXTENDS Integers, Sequences, FiniteSets, TLC

VARIABLES
    menu_items,        \* MenuManager.menu_items: the catalog, a list of MenuItem
    menu_file,         \* data/menu.json: its list of records, or Absent,
                       \* NotAList, Broken
    orders,            \* OrderManager.orders: the live orders, a list of Order
    orders_file,       \* data/orders.json, likewise
    ret,               \* what the last store call returned, or the bot answered
    item_ids_issued,   \* history: every id MenuManager.add_item has returned
    order_ids_issued,  \* history: every id given to an order that was created
    sample,            \* round trip: the object serialized; start of the
                       \* process: the two files as they were found
    record,            \* round trip: its record, once to_dict has run
    restored,          \* round trip: the object from_dict makes of the record
    ser_pc,            \* round trip: "object", "record" or "restored"
    state,             \* the FSMContext state of the chat whose event is
                       \* handled, NoState for None
    state_data,        \* the FSMContext data of that chat, state.get_data()
    chat,              \* the chat whose event is handled
    storage,           \* MemoryStorage: state and data of the other chats
    tasks              \* per chat: where its handler is suspended, with the
                       \* handler's local variables, or idle

storeVars == <<menu_items, menu_file, orders, orders_file>>
histVars  == <<ret, item_ids_issued, order_ids_issued>>
serVars   == <<sample, record, restored, ser_pc>>
fsmVars   == <<state, state_data>>
chatVars  == <<chat, storage, tasks>>
vars      == <<menu_items, menu_file, orders, orders_file,
               ret, item_ids_issued, order_ids_issued,
               sample, record, restored, ser_pc, state, state_data,
               chat, storage, tasks>>

---------------------------------------------------------------------------
(* Configuration: config.py                                                *)

TABLE_COUNT == 11

None == <<>>
NoId == 0

Kuhnya == <<"Kuhnya">>      \* "Кухня"
Bar    == <<"Bar">>         \* "Бар"

MAIN_CATEGORIES == <<Kuhnya, Bar>>

\* "Закуски", "Гарниры", "Горячее", "Десерты", "Салаты"
KuhnyaCategories ==
    << <<"Zakuski">>, <<"Garniry">>, <<"Goryachee">>, <<"Deserty">>, <<"Salaty">> >>

\* "Коктейли", "Алкоголь", "Пиво", "Лимонады", "Чай"
BarCategories ==
    << <<"Kokteyli">>, <<"Alkogol">>, <<"Pivo">>, <<"Limonady">>, <<"Chay">> >>

\* MENU_CATEGORIES.get(main_category, [])
MENU_CATEGORIES(main_category) ==
    IF main_category = Kuhnya THEN KuhnyaCategories
    ELSE IF main_category = Bar THEN BarCategories
    ELSE <<>>

---------------------------------------------------------------------------
(* Helpers on lists                                                        *)

Range(s) == {s[i] : i \in DOMAIN s}

InList(x, s) == \E i \in DOMAIN s : s[i] = x

\* max(xs, default=0)
MaxOr0(S) == IF S = {} THEN 0 ELSE CHOOSE m \in S : \A x \in S : x <= m

\* del s[i]
RemoveAt(s, i) == [j \in 1..(Len(s) - 1) |-> IF j < i THEN s[j] ELSE s[j + 1]]

\* the least index of a set of indices, 0 when the set is empty: the first hit
\* of a "for x in xs: if ...: return" loop
FirstOr0(I) == IF I = {} THEN 0 ELSE CHOOSE i \in I : \A j \in I : i <= j

---------------------------------------------------------------------------
(* models/menu.py: MenuItem                                                *)

\* MenuItem._determine_main_category
determine_main_category(category) ==
    LET i == FirstOr0({k \in DOMAIN MAIN_CATEGORIES :
                          InList(category, MENU_CATEGORIES(MAIN_CATEGORIES[k]))})
    IN  IF i = 0 THEN Kuhnya ELSE MAIN_CATEGORIES[i]

\* MenuItem.__init__
MenuItem(id, name, category, main_category) ==
    [id |-> id, name |-> name, category |-> category,
     main_category |-> IF main_category = None
                       THEN determine_main_category(category)
                       ELSE main_category]

\* MenuItem.to_dict
MenuItem_to_dict(item) ==
    [id |-> item.id, name |-> item.name, category |-> item.category,
     main_category |-> item.main_category]

\* MenuItem.from_dict that does not read main_category from the record
MenuItem_from_dict_derives(data) ==
    MenuItem(data.id, data.name, data.category, None)

\* MenuItem.from_dict; data.get("main_category") is None for a record without the key
MenuItem_from_dict(data) ==
    LET main_category == IF "main_category" \in DOMAIN data
                         THEN data.main_category ELSE None
    IN  MenuItem(data.id, data.name, data.category, main_category)

---------------------------------------------------------------------------
(* models/menu.py: MenuManager                                             *)

\* MenuManager.save_menu: the records written to the file
menu_records(items) == [i \in DOMAIN items |-> MenuItem_to_dict(items[i])]

\* MenuManager.add_item: the id given to the new item
new_item_id(items) == MaxOr0({items[i].id : i \in DOMAIN items}) + 1

\* MenuManager.add_item: the catalog afterwards (the new item is its last)
MenuManager_add_item(items, name, category, main_category) ==
    Append(items, MenuItem(new_item_id(items), name, category, main_category))

\* MenuManager.get_item_by_id: the index of the item, 0 for None
item_index(items, item_id) ==
    FirstOr0({i \in DOMAIN items : items[i].id = item_id})

\* MenuManager.delete_item deleting the last item instead of the one found
MenuManager_delete_item_last(items, item_id) ==
    IF item_index(items, item_id) = 0 THEN items ELSE SubSeq(items, 1, Len(items) - 1)

\* MenuManager.delete_item: the catalog afterwards
MenuManager_delete_item(items, item_id) ==
    LET i == item_index(items, item_id)
    IN  IF i = 0 THEN items ELSE RemoveAt(items, i)

---------------------------------------------------------------------------
(* models/orders.py: OrderItem, Order                                      *)

\* OrderItem.__init__.  MenuItem objects are never assigned to after their
\* construction, so the reference a line keeps behaves as a copy of the item.
OrderItem(menu_item, quantity) == [menu_item |-> menu_item, quantity |-> quantity]

\* OrderItem.to_dict
OrderItem_to_dict(order_item) ==
    [menu_item |-> MenuItem_to_dict(order_item.menu_item),
     quantity |-> order_item.quantity]

\* OrderItem.from_dict
OrderItem_from_dict(data) ==
    OrderItem(MenuItem_from_dict(data.menu_item), data.quantity)

\* the truth value of a string or None: "timestamp or ..."
Truthy(str) == str # None /\ str # <<"">>

\* Order.__init__; now is what datetime.now().isoformat() returns at the call
Order(id, table_number, items, timestamp, is_active, now) ==
    [id |-> id, table_number |-> table_number,
     items |-> items,                                  \* items or []
     timestamp |-> IF Truthy(timestamp) THEN timestamp ELSE now,
     is_active |-> is_active]

\* Order.to_dict
Order_to_dict(order) ==
    [id |-> order.id, table_number |-> order.table_number,
     items |-> [i \in DOMAIN order.items |-> OrderItem_to_dict(order.items[i])],
     timestamp |-> order.timestamp, is_active |-> order.is_active]

\* Order.from_dict
Order_from_dict(data, now) ==
    Order(data.id, data.table_number,
          [i \in DOMAIN data.items |-> OrderItem_from_dict(data.items[i])],
          data.timestamp, data.is_active, now)

\* Order.add_item: the index of the line with the item's id, 0 when there is none
line_index(items, menu_item) ==
    FirstOr0({i \in DOMAIN items : items[i].menu_item.id = menu_item.id})

\* Order.add_item without the search for a line of the same item
Order_add_item_appends(order, menu_item, quantity) ==
    [order EXCEPT !.items = Append(@, OrderItem(menu_item, quantity))]

\* Order.add_item: the order afterwards
Order_add_item(order, menu_item, quantity) ==
    LET i == line_index(order.items, menu_item)
    IN  IF i # 0
        THEN [order EXCEPT !.items[i].quantity = @ + quantity]
        ELSE [order EXCEPT !.items = Append(@, OrderItem(menu_item, quantity))]

---------------------------------------------------------------------------
(* models/orders.py: OrderManager                                          *)

\* OrderManager.save_orders: the records written to the file
order_records(os) == [i \in DOMAIN os |-> Order_to_dict(os[i])]

\* create_order's test of the table without its lower end
valid_table_no_lower_end(table_number) == table_number <= TABLE_COUNT

\* OrderManager.create_order: the range check that raises ValueError
valid_table(table_number) == 1 <= table_number /\ table_number <= TABLE_COUNT

\* OrderManager.get_order_by_id: the index of the order, 0 for None
order_index(os, order_id) ==
    FirstOr0({i \in DOMAIN os : os[i].id = order_id})

\* OrderManager.get_active_orders
get_active_orders(os) == SelectSeq(os, LAMBDA o : o.is_active)

\* get_table_active_order that compares the order's id, not its table
table_order_index_by_id(os, table_number) ==
    FirstOr0({i \in DOMAIN os : os[i].id = table_number /\ os[i].is_active})

\* OrderManager.get_table_active_order: the index of the order, 0 for None
table_order_index(os, table_number) ==
    FirstOr0({i \in DOMAIN os :
                 os[i].table_number = table_number /\ os[i].is_active})

\* OrderManager.create_order: the id given to a new order
new_order_id(os) == MaxOr0({os[i].id : i \in DOMAIN os}) + 1

\* OrderManager.create_order without the search for the table's active order
OrderManager_create_order_always(os, table_number, now) ==
    Append(os, Order(new_order_id(os), table_number, <<>>, None, TRUE, now))

\* OrderManager.create_order, for a table in range: the orders afterwards
OrderManager_create_order(os, table_number, now) ==
    IF table_order_index(os, table_number) # 0
    THEN os
    ELSE Append(os, Order(new_order_id(os), table_number, <<>>, None, TRUE, now))

\* OrderManager.create_order, for a table in range: the index of the order returned
created_index(os, table_number) ==
    IF table_order_index(os, table_number) # 0
    THEN table_order_index(os, table_number)
    ELSE Len(os) + 1

\* OrderManager.close_order: the list that save_orders writes, the order
\* marked inactive and still in it
close_marked(os, order_id) ==
    LET i == order_index(os, order_id)
    IN  IF i = 0 THEN os ELSE [os EXCEPT ![i].is_active = FALSE]

\* OrderManager.close_order without the removal of the order from the list
OrderManager_close_order_keeps(os, order_id) == close_marked(os, order_id)

\* OrderManager.close_order: the orders afterwards
OrderManager_close_order(os, order_id) ==
    IF order_index(os, order_id) = 0
    THEN os
    ELSE get_active_orders(close_marked(os, order_id))

---------------------------------------------------------------------------
(* Text input: what the handlers do with message.text                      *)

\* the decimal numerals the checks enter, "0" .. "12"
Numerals == <<"0", "1", "2", "3", "4", "5", "6", "7", "8", "9", "10", "11", "12">>

\* whether int(text) returns, rather than raising ValueError: one numeral,
\* or one numeral behind a minus sign
is_int(text) ==
    /\ Len(text) = 1
    /\ \/ InList(text[1], Numerals)
       \/ text[1] = "-1"

\* int(text), for a text that is_int
int(text) ==
    IF text[1] = "-1" THEN -1
    ELSE FirstOr0({i \in DOMAIN Numerals : Numerals[i] = text[1]}) - 1

\* str(n), for n in 0..12
str(n) == <<Numerals[n + 1]>>

\* process_quantity: the quantity entered, 0 when the try block raises
\* ValueError (not a number, or a number <= 0)
parse_quantity(text) ==
    IF is_int(text) /\ int(text) > 0 THEN int(text) ELSE 0

---------------------------------------------------------------------------
(* Bounds and the inputs the checks enumerate                              *)

MaxItemId  == 2      \* add_item is not called once it would give a larger id
MaxOrderId == 2      \* create_order is not called once it would give a larger id
MaxLineQty == 2      \* a line's quantity is not raised above this

Cezar  == <<"Cezar">>       \* "Цезарь"
Mohito == <<"Mohito">>      \* "Мохито"
Salaty == <<"Salaty">>      \* "Салаты"
Chay   == <<"Chay">>        \* "Чай"
Sushi  == <<"Sushi">>       \* "Суши", a category of no main category
SalatCezar == <<"Salat", "Cezar">>     \* "Салат Цезарь"

\* the arguments of add_item: name, category, main_category
ItemArgs      == {<<Cezar, Salaty, None>>, <<Mohito, Chay, Bar>>}
OneItemArgs   == {<<Cezar, Salaty, None>>}
TableArgs     == {0, 1, 2, TABLE_COUNT + 1}
OneTable      == {1}
ItemIdArgs    == 1..(MaxItemId + 1)
OrderIdArgs   == 1..(MaxOrderId + 1)
QuantityTexts == {str(q) : q \in 0..MaxLineQty} \cup {<<"-1">>, <<"abc">>}
Clock         == {<<"2026-11-02T12:00:00">>}
SavesSucceed  == {TRUE}

NoKeyboard == "none"     \* a store call answers no message

NoState == "None"

\* FSMContext data after state.clear(): no key is set
NoData == [current_order_id |-> NoId, current_main_category |-> None,
           current_category |-> None, current_item_id |-> NoId,
           active_orders |-> <<>>,
           new_item_main_category |-> None, new_item_category |-> None,
           new_item_name |-> None,
           delete_main_category |-> None, delete_category |-> None,
           delete_item_id |-> NoId, delete_item_name |-> None]

NoRet == [op |-> "none", arg |-> 0, ok |-> TRUE, id |-> NoId, quantity |-> 0,
          reply_markup |-> NoKeyboard]

---------------------------------------------------------------------------
(* The store calls as steps on the two stores.  io tells whether the save  *)
(* at the end of the call wrote the file (save_menu and save_orders        *)
(* swallow every error).                                                   *)

\* what a data file holds when it does not hold a list of records: no file,
\* JSON that is not a list, and text that is not JSON
Absent   == <<[json |-> "absent"]>>
NotAList == <<[json |-> "object"]>>
Broken   == <<[json |-> "invalid"]>>

\* os.path.exists(path), json.load(f) returns, isinstance(data, list)
is_list(file) == file \notin {Absent, NotAList, Broken}

\* save_menu, save_orders: what the file can hold afterwards.  The records
\* when the save went through; when it raised, the file as it was (makedirs
\* or open raised) or a part of the new text (open(path, 'w') has emptied
\* the file and json.dump or the close raised)
save(io, records, file) == IF io THEN {records} ELSE {file, Broken}

\* MenuManager.add_item
add_item(name, category, main_category, io) ==
    /\ menu_items' = MenuManager_add_item(menu_items, name, category, main_category)
    /\ menu_file' \in save(io, menu_records(menu_items'), menu_file)
    /\ item_ids_issued' = item_ids_issued \cup {new_item_id(menu_items)}
    /\ UNCHANGED <<orders, orders_file, order_ids_issued>>

\* delete_item that also takes the deleted item's lines out of the orders
delete_item_cascades(item_id, io) ==
    /\ menu_items' = MenuManager_delete_item(menu_items, item_id)
    /\ menu_file' \in IF item_index(menu_items, item_id) # 0
                      THEN save(io, menu_records(menu_items'), menu_file)
                      ELSE {menu_file}
    /\ orders' = [o \in DOMAIN orders |->
                     [orders[o] EXCEPT !.items =
                         SelectSeq(@, LAMBDA l : l.menu_item.id # item_id)]]
    /\ UNCHANGED <<orders_file, item_ids_issued, order_ids_issued>>

\* MenuManager.delete_item: saves only when an item was deleted
delete_item(item_id, io) ==
    /\ menu_items' = MenuManager_delete_item(menu_items, item_id)
    /\ menu_file' \in IF item_index(menu_items, item_id) # 0
                      THEN save(io, menu_records(menu_items'), menu_file)
                      ELSE {menu_file}
    /\ UNCHANGED <<orders, orders_file, item_ids_issued, order_ids_issued>>

\* OrderManager.create_order, for a table in range: saves only when an order
\* was created
create_order(table_number, now, io) ==
    /\ orders' = OrderManager_create_order(orders, table_number, now)
    /\ orders_file' \in IF table_order_index(orders, table_number) = 0
                        THEN save(io, order_records(orders'), orders_file)
                        ELSE {orders_file}
    /\ order_ids_issued' =
          IF table_order_index(orders, table_number) = 0
          THEN order_ids_issued \cup {new_order_id(orders)}
          ELSE order_ids_issued
    /\ UNCHANGED <<menu_items, menu_file, item_ids_issued>>

\* OrderManager.close_order: saves the list with the order marked, then drops it
close_order(order_id, io) ==
    /\ orders' = OrderManager_close_order(orders, order_id)
    /\ orders_file' \in IF order_index(orders, order_id) # 0
                        THEN save(io, order_records(close_marked(orders, order_id)),
                                  orders_file)
                        ELSE {orders_file}
    /\ UNCHANGED <<menu_items, menu_file, item_ids_issued, order_ids_issued>>

\* order.add_item(item, quantity); order_manager.save_orders()
\* (add_item_with_quantity); o and m are the indices of the order and the item
add_line(o, m, quantity, io) ==
    /\ orders' = [orders EXCEPT ![o] = Order_add_item(@, menu_items[m], quantity)]
    /\ orders_file' \in save(io, order_records(orders'), orders_file)
    /\ UNCHANGED <<menu_items, menu_file, item_ids_issued, order_ids_issued>>

\* the quantity the line of item m has in order o after quantity is added
line_quantity_after(o, m, quantity) ==
    LET i == line_index(orders[o].items, menu_items[m])
    IN  IF i = 0 THEN quantity ELSE orders[o].items[i].quantity + quantity

stores == <<menu_items, menu_file, orders, orders_file,
            item_ids_issued, order_ids_issued>>

---------------------------------------------------------------------------
(* The stores driven by direct calls                                       *)

InitStores ==
    /\ menu_items = <<>>
    /\ menu_file = <<>>
    /\ orders = <<>>
    /\ orders_file = <<>>
    /\ ret = NoRet
    /\ item_ids_issued = {}
    /\ order_ids_issued = {}

InitSer ==
    /\ sample = None
    /\ record = None
    /\ restored = None
    /\ ser_pc = "none"

\* the chats that write to the bot
Chats == {1, 2}

\* a chat's record in the storage
Session(st, data) == [state |-> st, data |-> data]

\* a handler that is not running
Idle == [pc |-> "idle", text |-> None, order_id |-> NoId, item_id |-> NoId,
         quantity |-> 0]

\* no dialogue: no chat has a state or data, and no handler is running
InitFsm ==
    /\ state = NoState
    /\ state_data = NoData
    /\ chat = 1
    /\ storage = [c \in Chats \ {1} |-> Session(NoState, NoData)]
    /\ tasks = [c \in Chats |-> Idle]

InitStore == InitStores /\ InitSer /\ InitFsm

CallAddItem(name, category, main_category, io) ==
    /\ new_item_id(menu_items) <= MaxItemId
    /\ add_item(name, category, main_category, io)
    /\ ret' = [op |-> "add_item", arg |-> 0, ok |-> TRUE,
               id |-> new_item_id(menu_items), quantity |-> 0, reply_markup |-> NoKeyboard]
    /\ UNCHANGED <<serVars, chatVars, fsmVars>>

CallDeleteItem(item_id, io) ==
    /\ delete_item(item_id, io)
    /\ ret' = [op |-> "delete_item", arg |-> item_id,
               ok |-> item_index(menu_items, item_id) # 0,
               id |-> NoId, quantity |-> 0, reply_markup |-> NoKeyboard]
    /\ UNCHANGED <<serVars, chatVars, fsmVars>>

CallCreateOrder(table_number, now, io) ==
    /\ valid_table(table_number) /\ table_order_index(orders, table_number) = 0
          => new_order_id(orders) <= MaxOrderId
    /\ IF valid_table(table_number)
       THEN /\ create_order(table_number, now, io)
            /\ ret' = [op |-> "create_order", arg |-> table_number, ok |-> TRUE,
                       id |-> orders'[created_index(orders, table_number)].id,
                       quantity |-> 0, reply_markup |-> NoKeyboard]
       ELSE \* raise ValueError
            /\ ret' = [op |-> "create_order", arg |-> table_number, ok |-> FALSE,
                       id |-> NoId, quantity |-> 0, reply_markup |-> NoKeyboard]
            /\ UNCHANGED stores
    /\ UNCHANGED <<serVars, chatVars, fsmVars>>

CallCloseOrder(order_id, io) ==
    /\ close_order(order_id, io)
    /\ ret' = [op |-> "close_order", arg |-> order_id,
               ok |-> order_index(orders, order_id) # 0,
               id |-> NoId, quantity |-> 0, reply_markup |-> NoKeyboard]
    /\ UNCHANGED <<serVars, chatVars, fsmVars>>

\* the quantity entered as text, as process_quantity reads it, and the line
\* added as add_item_with_quantity adds it
CallAddLine(o, m, text, io) ==
    /\ o \in DOMAIN orders
    /\ m \in DOMAIN menu_items
    /\ line_quantity_after(o, m, parse_quantity(text)) <= MaxLineQty
    /\ IF parse_quantity(text) # 0
       THEN /\ add_line(o, m, parse_quantity(text), io)
            /\ ret' = [op |-> "add_line", arg |-> orders[o].id, ok |-> TRUE,
                       id |-> menu_items[m].id, quantity |-> parse_quantity(text),
                       reply_markup |-> NoKeyboard]
       ELSE /\ ret' = [op |-> "add_line", arg |-> orders[o].id, ok |-> FALSE,
                       id |-> menu_items[m].id, quantity |-> 0, reply_markup |-> NoKeyboard]
            /\ UNCHANGED stores
    /\ UNCHANGED <<serVars, chatVars, fsmVars>>

\* the calls on the catalog and on the order collection
NextStore ==
    \E io \in SavesSucceed :
        \/ \E a \in ItemArgs : CallAddItem(a[1], a[2], a[3], io)
        \/ \E item_id \in ItemIdArgs : CallDeleteItem(item_id, io)
        \/ \E table_number \in TableArgs, now \in Clock :
                CallCreateOrder(table_number, now, io)
        \/ \E order_id \in OrderIdArgs : CallCloseOrder(order_id, io)

SpecStore == InitStore /\ [][NextStore]_vars

\* the same calls for one table, and lines added to its order
NextLines ==
    \E io \in SavesSucceed :
        \/ \E a \in OneItemArgs : CallAddItem(a[1], a[2], a[3], io)
        \/ \E item_id \in ItemIdArgs : CallDeleteItem(item_id, io)
        \/ \E table_number \in OneTable, now \in Clock :
                CallCreateOrder(table_number, now, io)
        \/ \E order_id \in OrderIdArgs : CallCloseOrder(order_id, io)
        \/ \E o \in 1..MaxOrderId, m \in 1..MaxItemId, text \in QuantityTexts :
                CallAddLine(o, m, text, io)

SpecLines == InitStore /\ [][NextLines]_vars

\* the order of table 1 takes lines of catalog items while items are added to
\* and deleted from the catalog
NextSnapshots ==
    \E io \in SavesSucceed :
        \/ \E a \in ItemArgs : CallAddItem(a[1], a[2], a[3], io)
        \/ \E item_id \in 1..MaxItemId : CallDeleteItem(item_id, io)
        \/ \E table_number \in OneTable, now \in Clock :
                CallCreateOrder(table_number, now, io)
        \/ \E o \in 1..MaxOrderId, m \in 1..MaxItemId, q \in 1..MaxLineQty :
                CallAddLine(o, m, str(q), io)

SpecSnapshots == InitStore /\ [][NextSnapshots]_vars

---------------------------------------------------------------------------
(* Start of the process: MenuManager.load_menu and OrderManager.load_orders *)

\* MenuItem.from_dict returns, rather than raising KeyError
menu_record_ok(data) == {"id", "name", "category"} \subseteq DOMAIN data

\* OrderItem.from_dict and Order.from_dict return
order_record_ok(data) ==
    /\ {"id", "table_number", "items", "timestamp", "is_active"} \subseteq DOMAIN data
    /\ \A i \in DOMAIN data.items :
          /\ {"menu_item", "quantity"} \subseteq DOMAIN data.items[i]
          /\ menu_record_ok(data.items[i].menu_item)

\* load_menu: the file is read into a list of items without an exception
menu_file_loads(file) ==
    is_list(file) /\ \A i \in DOMAIN file : menu_record_ok(file[i])

orders_file_loads(file) ==
    is_list(file) /\ \A i \in DOMAIN file : order_record_ok(file[i])

\* load_menu: the catalog afterwards, empty on every other path
load_menu(file) ==
    IF menu_file_loads(file)
    THEN [i \in DOMAIN file |-> MenuItem_from_dict(file[i])]
    ELSE <<>>

\* load_menu that saves only when there was no file
load_menu_saves_no_file(file) == file = Absent

\* load_menu: whether it calls save_menu: no file, JSON that is not a list,
\* or an item whose main_category is None after from_dict
load_menu_saves(file) ==
    \/ file \in {Absent, NotAList}
    \/ /\ menu_file_loads(file)
       /\ \E i \in DOMAIN file : MenuItem_from_dict(file[i]).main_category = None

\* load_orders that keeps the inactive orders of the file
load_orders_unfiltered(file, now) ==
    IF orders_file_loads(file)
    THEN [i \in DOMAIN file |-> Order_from_dict(file[i], now)]
    ELSE <<>>

\* load_orders: the orders afterwards
load_orders(file, now) ==
    IF orders_file_loads(file)
    THEN get_active_orders([i \in DOMAIN file |-> Order_from_dict(file[i], now)])
    ELSE <<>>

\* load_orders: whether it calls save_orders
load_orders_saves(file) == file \in {Absent, NotAList}

\* the process starts: both managers are constructed from the files, and the
\* MemoryStorage of the dialogue is new
Restart(now, io) ==
    /\ menu_items' = load_menu(menu_file)
    /\ menu_file' \in IF load_menu_saves(menu_file)
                      THEN save(io, menu_records(menu_items'), menu_file)
                      ELSE {menu_file}
    /\ orders' = load_orders(orders_file, now)
    /\ orders_file' \in IF load_orders_saves(orders_file)
                        THEN save(io, order_records(orders'), orders_file)
                        ELSE {orders_file}
    /\ ret' = [NoRet EXCEPT !.op = "restart"]
    /\ state' = NoState
    /\ state_data' = NoData
    /\ UNCHANGED <<item_ids_issued, order_ids_issued, serVars, chatVars>>

\* the store calls for one table, their saves going through, and restarts
NextRestart ==
    \E io \in SavesSucceed, now \in Clock :
        \/ \E a \in OneItemArgs : CallAddItem(a[1], a[2], a[3], io)
        \/ \E item_id \in 1..MaxItemId : CallDeleteItem(item_id, io)
        \/ \E table_number \in OneTable : CallCreateOrder(table_number, now, io)
        \/ \E order_id \in 1..MaxOrderId : CallCloseOrder(order_id, io)
        \/ \E o \in 1..MaxOrderId, m \in 1..MaxItemId :
                CallAddLine(o, m, str(1), io)
        \/ Restart(now, io)

SpecRestart == InitStore /\ [][NextRestart]_vars

\* a save goes through or raises
SavesMayFail == BOOLEAN

\* the store calls for one table, each with a save that may raise
NextFailing ==
    \E io \in SavesMayFail, now \in Clock :
        \/ \E a \in OneItemArgs : CallAddItem(a[1], a[2], a[3], io)
        \/ \E item_id \in 1..MaxItemId : CallDeleteItem(item_id, io)
        \/ \E table_number \in OneTable : CallCreateOrder(table_number, now, io)
        \/ \E order_id \in 1..MaxOrderId : CallCloseOrder(order_id, io)

SpecFailing == InitStore /\ [][NextFailing]_vars

---------------------------------------------------------------------------
(* The dialogue: handlers/common.py and handlers/order_handlers.py.  One   *)
(* session is followed; what the other sessions do to the stores is the    *)
(* direct store calls.  A handler reads and writes the stores between two  *)
(* awaits, so a handler is one step.                                       *)

\* str.lower() of the category names, word by word
LowerWords ==
    ("Zakuski" :> "zakuski") @@ ("Garniry" :> "garniry") @@
    ("Goryachee" :> "goryachee") @@ ("Deserty" :> "deserty") @@
    ("Salaty" :> "salaty") @@ ("Kokteyli" :> "kokteyli") @@
    ("Alkogol" :> "alkogol") @@ ("Pivo" :> "pivo") @@
    ("Limonady" :> "limonady") @@ ("Chay" :> "chay")

lower(text) ==
    [i \in DOMAIN text |->
        IF text[i] \in DOMAIN LowerWords THEN LowerWords[text[i]] ELSE text[i]]

\* MenuManager.get_menu_items_by_category
get_menu_items_by_category(items, category) ==
    SelectSeq(items, LAMBDA item : lower(item.category) = lower(category))

\* text.startswith(prefix).  Words are not split further: the last word of
\* prefix begins a word of text when it is empty or is that word
startswith(text, prefix) ==
    /\ Len(text) >= Len(prefix)
    /\ \A i \in 1..(Len(prefix) - 1) : text[i] = prefix[i]
    /\ prefix[Len(prefix)] \in {"", text[Len(prefix)]}

CmdStart                 == <<"/start">>
MainMenuText             == <<"<-", "Vernutsya", "v", "glavnoe", "menyu">>
                            \* "🔙 Вернуться в главное меню"
NewOrderText             == <<"NEW", "Novyy", "zakaz">>       \* "🆕 Новый заказ"
ActiveOrdersText         == <<"LIST", "Aktivnye", "zakazy">>  \* "📋 Активные заказы"
StolPrefix               == <<"Stol", "">>                    \* "Стол "
BackToTablesText         == <<"<-", "Nazad", "k", "stolam">>  \* "🔙 Назад к столам"
BackToOrdersText         == <<"<-", "Nazad", "k", "zakazam">> \* "🔙 Назад к заказам"
FinishOrderText          == <<"OK", "Zavershit", "zakaz">>    \* "✅ Завершить заказ"
BackToMainCategoriesText == <<"<-", "Nazad", "k", "osnovnym", "kategoriyam">>
                            \* "🔙 Назад к основным категориям"
BackToSubcategoriesText  == <<"<-", "Nazad", "k", "podkategoriyam">>
                            \* "🔙 Назад к подкатегориям"
OtherQuantityText        == <<"Drugoe", "kolichestvo">>       \* "Другое количество"
BackText                 == <<"<-", "Nazad">>                 \* "🔙 Назад"
CancelText               == <<"<-", "Otmena">>                \* "🔙 Отмена"
AddLinesPrefix           == <<"+", "Dobavit", "pozitsii">>    \* "➕ Добавить позиции"
CloseOrderPrefix         == <<"OK", "Zakryt", "zakaz">>       \* "✅ Закрыть заказ"
ConfirmCloseText         == <<"OK", "Da,", "zakryt", "zakaz">>
                            \* "✅ Да, закрыть заказ"
CancelCloseText          == <<"X", "Net,", "otmena">>         \* "❌ Нет, отмена"
MenuText                 == <<"MENU", "Menyu">>               \* "🍽️ Меню"
EditMenuText             == <<"EDIT", "Izmenit", "menyu">>    \* "⚙️ Изменить меню"
AddItemText              == <<"+", "Dobavit", "pozitsiyu">>   \* "➕ Добавить позицию"
DeleteItemText           == <<"-", "Udalit", "pozitsiyu">>    \* "➖ Удалить позицию"
BackToMenuText           == <<"<-", "Nazad", "v", "menyu">>   \* "🔙 Назад в меню"
YesText                  == <<"OK", "Da">>                    \* "✅ Да"
NoText                   == <<"X", "Net">>                    \* "❌ Нет"

\* f"Стол {j}", a button of get_tables_keyboard
TableText(j) == <<"Stol", str(j)[1]>>

\* f"Стол {order.table_number} - {len(order.items)} поз."
OrderKey(order) ==
    <<"Stol", str(order.table_number)[1], "-", str(Len(order.items))[1], "poz.">>

\* the buttons of get_order_actions_keyboard, "... (Стол N)"; the closing
\* bracket is written as a word of its own
AddLinesText(order)   == AddLinesPrefix \o <<"(Stol", str(order.table_number)[1], ")">>
CloseOrderText(order) == CloseOrderPrefix \o <<"(Stol", str(order.table_number)[1], ")">>

\* the order_map of show_active_orders and back_to_active_orders: a later
\* order of the same key replaces an earlier one
order_map(os) ==
    LET active_orders == get_active_orders(os)
    IN  [key \in {OrderKey(active_orders[i]) : i \in DOMAIN active_orders} |->
            active_orders[MaxOr0({i \in DOMAIN active_orders :
                                     OrderKey(active_orders[i]) = key})].id]

\* the handler's own test of the table number, its try block: the number
\* parsed, and whether the block ends without ValueError
table_parses(text) == is_int(<<text[2]>>)
table_in_range(table_number) == 1 <= table_number /\ table_number <= TABLE_COUNT

\* message.answer(..., reply_markup=...): op is the handler, arg the text of
\* the message handled, ok whether the handler went on rather than refused
Answer(op, text, ok, id, reply_markup) ==
    [op |-> op, arg |-> text, ok |-> ok, id |-> id, quantity |-> 0,
     reply_markup |-> reply_markup]

\* Dispatcher: routers in the order common, menu, order (main.py), handlers
\* in the order of registration, the first whose filters pass.
\* back_to_main_menu of order_handlers.py is never reached: common.py's
\* return_to_main_menu has the same filter
dispatch(st, text) ==
    IF text = CmdStart THEN "cmd_start"
    ELSE IF text = MainMenuText THEN "return_to_main_menu"
    ELSE IF text = MenuText THEN "show_menu"
    ELSE IF st = "main_menu" THEN "handle_main_menu"
    ELSE IF st = "edit_menu" THEN "handle_edit_menu"
    ELSE IF text = BackToMenuText THEN "back_to_menu"
    ELSE IF st = "adding_item_main_category" THEN "select_add_main_category"
    ELSE IF st = "adding_item_category" THEN "select_add_category"
    ELSE IF st = "adding_item_name" THEN "process_item_name"
    ELSE IF st = "deleting_main_category" THEN "select_delete_main_category"
    ELSE IF st = "deleting_category" THEN "select_delete_category"
    ELSE IF st = "deleting_item_select" THEN "confirm_delete_item"
    ELSE IF st = "confirm_delete" THEN "final_delete_item"
    ELSE IF text = NewOrderText THEN "new_order"
    ELSE IF text = ActiveOrdersText THEN "show_active_orders"
    ELSE IF st = "selecting_table" THEN "select_table"
    ELSE IF text = BackToTablesText THEN "back_to_tables"
    ELSE IF text = BackToOrdersText THEN "back_to_active_orders"
    ELSE IF st = "selecting_main_category" THEN "select_main_category"
    ELSE IF st = "selecting_category" THEN "select_subcategory"
    ELSE IF st = "selecting_menu_item" /\ text = BackToSubcategoriesText
         THEN "back_to_subcategories"
    ELSE IF st = "selecting_menu_item" THEN "select_menu_item"
    ELSE IF st = "entering_quantity" /\ text = BackText THEN "back_to_items"
    ELSE IF st = "entering_quantity" THEN "process_quantity"
    ELSE IF st = "viewing_order" THEN "view_order"
    ELSE IF st = "managing_order" THEN "manage_order"
    ELSE IF st = "confirm_close" /\ text = ConfirmCloseText THEN "confirm_close_order"
    ELSE IF st = "confirm_close" /\ text = CancelCloseText THEN "cancel_close_order"
    ELSE "unhandled"

\* await state.clear()
clear ==
    /\ state' = NoState
    /\ state_data' = NoData

\* a handler that only answers
answers == UNCHANGED <<stores, serVars, chatVars, fsmVars>>

\* common.py cmd_start
cmd_start(text) ==
    /\ clear
    /\ ret' = Answer("cmd_start", text, TRUE, NoId, "main")
    /\ UNCHANGED <<stores, serVars, chatVars>>

\* return_to_main_menu with state.set_state(None) for state.clear()
return_to_main_menu_keeps_data(text) ==
    /\ state' = NoState
    /\ ret' = Answer("return_to_main_menu", text, TRUE, NoId, "main")
    /\ UNCHANGED <<stores, serVars, chatVars, state_data>>

\* common.py return_to_main_menu
return_to_main_menu(text) ==
    /\ clear
    /\ ret' = Answer("return_to_main_menu", text, TRUE, NoId, "main")
    /\ UNCHANGED <<stores, serVars, chatVars>>

new_order(text) ==
    /\ state' = "selecting_table"
    /\ ret' = Answer("new_order", text, TRUE, NoId, "tables")
    /\ UNCHANGED <<stores, serVars, chatVars, state_data>>

\* the body show_active_orders and back_to_active_orders share
list_active_orders(op, text) ==
    IF get_active_orders(orders) = <<>>
    THEN /\ ret' = Answer(op, text, FALSE, NoId, "main")
         /\ answers
    ELSE /\ state_data' = [state_data EXCEPT !.active_orders = order_map(orders)]
         /\ state' = "viewing_order"
         /\ ret' = Answer(op, text, TRUE, NoId, "active_orders")
         /\ UNCHANGED <<stores, serVars, chatVars>>

show_active_orders(text) == list_active_orders("show_active_orders", text)

\* select_table without the search for the table's active order
select_table_new_order(text, now, io) ==
    IF ~startswith(text, StolPrefix)
          \/ ~(table_parses(text) /\ table_in_range(int(<<text[2]>>)))
    THEN /\ ret' = Answer("select_table", text, FALSE, NoId, "tables")
         /\ answers
    ELSE LET table_number == int(<<text[2]>>)
         IN  /\ new_order_id(orders) <= MaxOrderId
             /\ create_order(table_number, now, io)
             /\ state_data' = [state_data EXCEPT !.current_order_id =
                   orders'[created_index(orders, table_number)].id]
             /\ state' = "selecting_main_category"
             /\ ret' = Answer("select_table", text, TRUE,
                              orders'[created_index(orders, table_number)].id,
                              "main_categories")
             /\ UNCHANGED <<serVars, chatVars>>

select_table(text, now, io) ==
    IF text = MainMenuText
    THEN /\ clear
         /\ ret' = Answer("select_table", text, TRUE, NoId, "main")
         /\ UNCHANGED <<stores, serVars, chatVars>>
    ELSE IF ~startswith(text, StolPrefix)
    THEN /\ ret' = Answer("select_table", text, FALSE, NoId, "tables")
         /\ answers
    ELSE IF ~(table_parses(text) /\ table_in_range(int(<<text[2]>>)))
    THEN /\ ret' = Answer("select_table", text, FALSE, NoId, "tables")
         /\ answers
    ELSE LET table_number == int(<<text[2]>>)
             existing_order == table_order_index(orders, table_number)
         IN  IF existing_order # 0
             THEN /\ state_data' = [state_data EXCEPT
                                      !.current_order_id = orders[existing_order].id]
                  /\ state' = "managing_order"
                  /\ ret' = Answer("select_table", text, TRUE,
                                   orders[existing_order].id, "order_actions")
                  /\ UNCHANGED <<stores, serVars, chatVars>>
             ELSE IF ~valid_table(table_number)
             THEN \* create_order raises ValueError, which nothing catches
                  /\ ret' = Answer("select_table", text, FALSE, NoId, NoKeyboard)
                  /\ answers
             ELSE /\ new_order_id(orders) <= MaxOrderId
                  /\ create_order(table_number, now, io)
                  /\ state_data' = [state_data EXCEPT !.current_order_id =
                        orders'[created_index(orders, table_number)].id]
                  /\ state' = "selecting_main_category"
                  /\ ret' = Answer("select_table", text, TRUE,
                                   orders'[created_index(orders, table_number)].id,
                                   "main_categories")
                  /\ UNCHANGED <<serVars, chatVars>>

back_to_tables(text) ==
    /\ state' = "selecting_table"
    /\ ret' = Answer("back_to_tables", text, TRUE, NoId, "tables")
    /\ UNCHANGED <<stores, serVars, chatVars, state_data>>

back_to_active_orders(text) == list_active_orders("back_to_active_orders", text)

\* the finish branch that leaves an order without lines in the store
finish_order_keeps_empty(text, io) ==
    LET order_id == state_data.current_order_id
    IN  IF order_index(orders, order_id) = 0
        THEN /\ ret' = Answer("select_main_category", text, FALSE, NoId, "main")
             /\ answers
        ELSE /\ clear
             /\ ret' = Answer("select_main_category", text, TRUE, order_id, "main")
             /\ UNCHANGED <<stores, serVars, chatVars>>

\* the finish branch that closes the order whatever its lines
finish_order_closes(text, io) ==
    LET order_id == state_data.current_order_id
    IN  IF order_index(orders, order_id) = 0
        THEN /\ ret' = Answer("select_main_category", text, FALSE, NoId, "main")
             /\ answers
        ELSE /\ close_order(order_id, io)
             /\ clear
             /\ ret' = Answer("select_main_category", text,
                              orders[order_index(orders, order_id)].items # <<>>,
                              order_id, "main")
             /\ UNCHANGED <<serVars, chatVars>>

\* select_main_category, the branch of "✅ Завершить заказ"
finish_order(text, io) ==
    LET order_id == state_data.current_order_id
        order == order_index(orders, order_id)
    IN  IF order = 0
        THEN /\ ret' = Answer("select_main_category", text, FALSE, NoId, "main")
             /\ answers
        ELSE IF orders[order].items = <<>>
        THEN /\ close_order(order_id, io)
             /\ clear
             /\ ret' = Answer("select_main_category", text, FALSE, order_id, "main")
             /\ UNCHANGED <<serVars, chatVars>>
        ELSE /\ clear
             /\ ret' = Answer("select_main_category", text, TRUE, order_id, "main")
             /\ UNCHANGED <<stores, serVars, chatVars>>

select_main_category(text, io) ==
    LET order_id == state_data.current_order_id
        order == order_index(orders, order_id)
    IN  IF text = BackToTablesText
        THEN back_to_tables(text)
        ELSE IF text = FinishOrderText
        THEN finish_order(text, io)
        ELSE IF ~InList(text, MAIN_CATEGORIES)
        THEN /\ ret' = Answer("select_main_category", text, FALSE, NoId,
                              "main_categories")
             /\ answers
        ELSE /\ state_data' = [state_data EXCEPT !.current_main_category = text]
             /\ state' = "selecting_category"
             /\ ret' = Answer("select_main_category", text, TRUE, NoId, "subcategories")
             /\ UNCHANGED <<stores, serVars, chatVars>>

\* select_subcategory that never opens the choice of the item
select_subcategory_stays(text) ==
    LET main_category == state_data.current_main_category
    IN  IF text = BackToMainCategoriesText
        THEN /\ state' = "selecting_main_category"
             /\ ret' = Answer("select_subcategory", text, TRUE, NoId, "main_categories")
             /\ UNCHANGED <<stores, serVars, chatVars, state_data>>
        ELSE IF ~InList(text, MENU_CATEGORIES(main_category))
        THEN /\ ret' = Answer("select_subcategory", text, FALSE, NoId, "subcategories")
             /\ answers
        ELSE /\ state_data' = [state_data EXCEPT !.current_category = text]
             /\ ret' = Answer("select_subcategory", text, FALSE, NoId, "subcategories")
             /\ UNCHANGED <<stores, serVars, chatVars, state>>

select_subcategory(text) ==
    LET main_category == state_data.current_main_category
    IN  IF text = BackToMainCategoriesText
        THEN /\ state' = "selecting_main_category"
             /\ ret' = Answer("select_subcategory", text, TRUE, NoId, "main_categories")
             /\ UNCHANGED <<stores, serVars, chatVars, state_data>>
        ELSE IF ~InList(text, MENU_CATEGORIES(main_category))
        THEN /\ ret' = Answer("select_subcategory", text, FALSE, NoId, "subcategories")
             /\ answers
        ELSE /\ state_data' = [state_data EXCEPT !.current_category = text]
             /\ IF get_menu_items_by_category(menu_items, text) = <<>>
                THEN /\ ret' = Answer("select_subcategory", text, FALSE, NoId,
                                      "subcategories")
                     /\ UNCHANGED state
                ELSE /\ state' = "selecting_menu_item"
                     /\ ret' = Answer("select_subcategory", text, TRUE, NoId, "items")
             /\ UNCHANGED <<stores, serVars, chatVars>>

\* back_to_subcategories with the state of the main categories
back_to_subcategories_skips(text) ==
    /\ state' = "selecting_main_category"
    /\ ret' = Answer("back_to_subcategories", text, TRUE, NoId, "subcategories")
    /\ UNCHANGED <<stores, serVars, chatVars, state_data>>

back_to_subcategories(text) ==
    /\ state' = "selecting_category"
    /\ ret' = Answer("back_to_subcategories", text, TRUE, NoId, "subcategories")
    /\ UNCHANGED <<stores, serVars, chatVars, state_data>>

select_menu_item(text) ==
    LET items == get_menu_items_by_category(menu_items, state_data.current_category)
        selected_item == FirstOr0({i \in DOMAIN items : startswith(text, items[i].name)})
    IN  IF selected_item = 0
        THEN /\ ret' = Answer("select_menu_item", text, FALSE, NoId, "items")
             /\ answers
        ELSE /\ state_data' = [state_data EXCEPT
                                  !.current_item_id = items[selected_item].id]
             /\ state' = "entering_quantity"
             /\ ret' = Answer("select_menu_item", text, TRUE,
                              items[selected_item].id, "quantity")
             /\ UNCHANGED <<stores, serVars, chatVars>>

\* op is the handler that answers: back_to_items, or process_quantity calling it
back_to_items(op, text) ==
    /\ state' = "selecting_menu_item"
    /\ ret' = Answer(op, text, TRUE, NoId, "items")
    /\ UNCHANGED <<stores, serVars, chatVars, state_data>>

add_item_with_quantity(text, quantity, io) ==
    LET order_id == state_data.current_order_id
        item_id == state_data.current_item_id
        order == order_index(orders, order_id)
        item == item_index(menu_items, item_id)
    IN  IF order = 0 \/ item = 0
        THEN /\ ret' = Answer("process_quantity", text, FALSE, NoId, "main")
             /\ answers
        ELSE /\ line_quantity_after(order, item, quantity) <= MaxLineQty
             /\ add_line(order, item, quantity, io)
             /\ state' = "selecting_main_category"
             /\ ret' = [Answer("process_quantity", text, TRUE, item_id,
                               "main_categories") EXCEPT !.quantity = quantity]
             /\ UNCHANGED <<serVars, chatVars, state_data>>

\* process_quantity with quantity < 0 for quantity <= 0
process_quantity_takes_zero(text, io) ==
    IF text = OtherQuantityText
    THEN /\ ret' = Answer("process_quantity", text, TRUE, NoId, "back")
         /\ answers
    ELSE IF text = BackText \/ text = CancelText
    THEN back_to_items("process_quantity", text)
    ELSE IF is_int(text) /\ int(text) >= 0
    THEN add_item_with_quantity(text, int(text), io)
    ELSE /\ ret' = Answer("process_quantity", text, FALSE, NoId, "quantity")
         /\ answers

process_quantity(text, io) ==
    IF text = OtherQuantityText
    THEN /\ ret' = Answer("process_quantity", text, TRUE, NoId, "back")
         /\ answers
    ELSE IF text = BackText \/ text = CancelText
    THEN back_to_items("process_quantity", text)
    ELSE IF parse_quantity(text) # 0
    THEN add_item_with_quantity(text, parse_quantity(text), io)
    ELSE /\ ret' = Answer("process_quantity", text, FALSE, NoId, "quantity")
         /\ answers

view_order(text) ==
    LET order_map_ == state_data.active_orders
        order_id == IF text \in DOMAIN order_map_ THEN order_map_[text] ELSE NoId
    IN  IF text = MainMenuText
        THEN /\ clear
             /\ ret' = Answer("view_order", text, TRUE, NoId, "main")
             /\ UNCHANGED <<stores, serVars, chatVars>>
        ELSE IF order_id = NoId
        THEN /\ ret' = Answer("view_order", text, FALSE, NoId, "active_orders")
             /\ answers
        ELSE IF order_index(orders, order_id) = 0
        THEN /\ ret' = Answer("view_order", text, FALSE, order_id, "active_orders")
             /\ answers
        ELSE /\ state_data' = [state_data EXCEPT !.current_order_id = order_id]
             /\ state' = "managing_order"
             /\ ret' = Answer("view_order", text, TRUE, order_id, "order_actions")
             /\ UNCHANGED <<stores, serVars, chatVars>>

manage_order(text) ==
    LET order_id == state_data.current_order_id
    IN  IF text = BackToOrdersText
        THEN back_to_active_orders(text)
        ELSE IF order_index(orders, order_id) = 0
        THEN /\ ret' = Answer("manage_order", text, FALSE, NoId, "main")
             /\ answers
        ELSE IF startswith(text, AddLinesPrefix)
        THEN /\ state' = "selecting_main_category"
             /\ ret' = Answer("manage_order", text, TRUE, order_id, "main_categories")
             /\ UNCHANGED <<stores, serVars, chatVars, state_data>>
        ELSE IF startswith(text, CloseOrderPrefix)
        THEN /\ state' = "confirm_close"
             /\ ret' = Answer("manage_order", text, TRUE, order_id, "confirmation")
             /\ UNCHANGED <<stores, serVars, chatVars, state_data>>
        ELSE /\ ret' = Answer("manage_order", text, FALSE, order_id, "order_actions")
             /\ answers

\* the state is left as it is, confirm_close, also when the order is closed
confirm_close_order(text, io) ==
    LET order_id == state_data.current_order_id
    IN  IF order_id = NoId
        THEN /\ ret' = Answer("confirm_close_order", text, FALSE, NoId, "main")
             /\ answers
        ELSE IF order_index(orders, order_id) = 0
        THEN /\ ret' = Answer("confirm_close_order", text, FALSE, order_id, "main")
             /\ answers
        ELSE /\ close_order(order_id, io)
             /\ ret' = Answer("confirm_close_order", text, TRUE, order_id, "main")
             /\ UNCHANGED <<serVars, chatVars, fsmVars>>

\* cancel_close_order that closes the order as confirm_close_order does
cancel_close_order_closes(text) ==
    LET order_id == state_data.current_order_id
    IN  IF order_id = NoId
        THEN /\ ret' = Answer("cancel_close_order", text, FALSE, NoId, "main")
             /\ answers
        ELSE IF order_index(orders, order_id) # 0
        THEN /\ close_order(order_id, TRUE)
             /\ state' = "managing_order"
             /\ ret' = Answer("cancel_close_order", text, TRUE, order_id, "order_actions")
             /\ UNCHANGED <<serVars, chatVars, state_data>>
        ELSE /\ ret' = Answer("cancel_close_order", text, FALSE, order_id, "main")
             /\ answers

cancel_close_order(text) ==
    LET order_id == state_data.current_order_id
    IN  IF order_id = NoId
        THEN /\ ret' = Answer("cancel_close_order", text, FALSE, NoId, "main")
             /\ answers
        ELSE IF order_index(orders, order_id) # 0
        THEN /\ state' = "managing_order"
             /\ ret' = Answer("cancel_close_order", text, TRUE, order_id, "order_actions")
             /\ UNCHANGED <<stores, serVars, chatVars, state_data>>
        ELSE /\ ret' = Answer("cancel_close_order", text, FALSE, order_id, "main")
             /\ answers

---------------------------------------------------------------------------
(* The menu dialogue of menu_handlers.py.  set_state leaves the data of    *)
(* the session as it is: only state.clear() empties it.                    *)

show_menu(text) ==
    /\ state' = "main_menu"
    /\ ret' = Answer("show_menu", text, TRUE, NoId, "menu_main")
    /\ UNCHANGED <<stores, serVars, chatVars, state_data>>

\* the branch of the main-menu text is never reached: common.py's
\* return_to_main_menu has taken the message
handle_main_menu(text) ==
    IF text = EditMenuText
    THEN /\ state' = "edit_menu"
         /\ ret' = Answer("handle_main_menu", text, TRUE, NoId, "edit_menu")
         /\ UNCHANGED <<stores, serVars, chatVars, state_data>>
    ELSE IF text = MainMenuText
    THEN /\ clear
         /\ ret' = Answer("handle_main_menu", text, TRUE, NoId, "main")
         /\ UNCHANGED <<stores, serVars, chatVars>>
    ELSE /\ ret' = Answer("handle_main_menu", text, FALSE, NoId, "menu_main")
         /\ answers

\* op is the handler that answers: the one registered, or one calling it
back_to_menu(op, text) ==
    /\ state' = "main_menu"
    /\ ret' = Answer(op, text, TRUE, NoId, "menu_main")
    /\ UNCHANGED <<stores, serVars, chatVars, state_data>>

add_item_start(op, text) ==
    /\ state' = "adding_item_main_category"
    /\ ret' = Answer(op, text, TRUE, NoId, "main_categories")
    /\ UNCHANGED <<stores, serVars, chatVars, state_data>>

delete_item_start(op, text) ==
    /\ state' = "deleting_main_category"
    /\ ret' = Answer(op, text, TRUE, NoId, "main_categories")
    /\ UNCHANGED <<stores, serVars, chatVars, state_data>>

handle_edit_menu(text) ==
    IF text = AddItemText THEN add_item_start("handle_edit_menu", text)
    ELSE IF text = DeleteItemText THEN delete_item_start("handle_edit_menu", text)
    ELSE IF text = BackToMenuText THEN back_to_menu("handle_edit_menu", text)
    ELSE /\ ret' = Answer("handle_edit_menu", text, FALSE, NoId, "edit_menu")
         /\ answers

select_add_main_category(text) ==
    IF text = BackText
    THEN /\ state' = "edit_menu"
         /\ ret' = Answer("select_add_main_category", text, TRUE, NoId, "edit_menu")
         /\ UNCHANGED <<stores, serVars, chatVars, state_data>>
    ELSE IF ~InList(text, MAIN_CATEGORIES)
    THEN /\ ret' = Answer("select_add_main_category", text, FALSE, NoId, NoKeyboard)
         /\ answers
    ELSE /\ state_data' = [state_data EXCEPT !.new_item_main_category = text]
         /\ state' = "adding_item_category"
         /\ ret' = Answer("select_add_main_category", text, TRUE, NoId, "subcategories")
         /\ UNCHANGED <<stores, serVars, chatVars>>

\* select_add_category without the test of the subcategory
select_add_category_unchecked(text) ==
    IF text = BackText
    THEN add_item_start("select_add_category", text)
    ELSE /\ state_data' = [state_data EXCEPT !.new_item_category = text]
         /\ state' = "adding_item_name"
         /\ ret' = Answer("select_add_category", text, TRUE, NoId, "back")
         /\ UNCHANGED <<stores, serVars, chatVars>>

select_add_category(text) ==
    LET main_category == state_data.new_item_main_category
    IN  IF text = BackText
        THEN add_item_start("select_add_category", text)
        ELSE IF ~InList(text, MENU_CATEGORIES(main_category))
        THEN /\ ret' = Answer("select_add_category", text, FALSE, NoId, NoKeyboard)
             /\ answers
        ELSE /\ state_data' = [state_data EXCEPT !.new_item_category = text]
             /\ state' = "adding_item_name"
             /\ ret' = Answer("select_add_category", text, TRUE, NoId, "back")
             /\ UNCHANGED <<stores, serVars, chatVars>>

\* process_item_name that refuses the name of an item of the catalog
process_item_name_unique(text, io) ==
    IF text = BackText
    THEN /\ state' = "adding_item_category"
         /\ ret' = Answer("process_item_name", text, FALSE, NoId, "subcategories")
         /\ UNCHANGED <<stores, serVars, chatVars, state_data>>
    ELSE IF \E i \in Range(menu_items) : i.name = text
    THEN /\ ret' = Answer("process_item_name", text, TRUE, NoId, "back")
         /\ answers
    ELSE /\ new_item_id(menu_items) <= MaxItemId
         /\ state_data' = [state_data EXCEPT !.new_item_name = text]
         /\ add_item(text, state_data.new_item_category,
                     state_data.new_item_main_category, io)
         /\ state' = "edit_menu"
         /\ ret' = Answer("process_item_name", text, TRUE, new_item_id(menu_items),
                          "edit_menu")
         /\ UNCHANGED <<serVars, chatVars>>

\* the item is added with the category and the main category of the data
process_item_name(text, io) ==
    IF text = BackText
    THEN /\ state' = "adding_item_category"
         /\ ret' = Answer("process_item_name", text, FALSE, NoId, "subcategories")
         /\ UNCHANGED <<stores, serVars, chatVars, state_data>>
    ELSE /\ new_item_id(menu_items) <= MaxItemId
         /\ state_data' = [state_data EXCEPT !.new_item_name = text]
         /\ add_item(text, state_data.new_item_category,
                     state_data.new_item_main_category, io)
         /\ state' = "edit_menu"
         /\ ret' = Answer("process_item_name", text, TRUE, new_item_id(menu_items),
                          "edit_menu")
         /\ UNCHANGED <<serVars, chatVars>>

select_delete_main_category(text) ==
    IF text = BackText
    THEN /\ state' = "edit_menu"
         /\ ret' = Answer("select_delete_main_category", text, TRUE, NoId, "edit_menu")
         /\ UNCHANGED <<stores, serVars, chatVars, state_data>>
    ELSE IF ~InList(text, MAIN_CATEGORIES)
    THEN /\ ret' = Answer("select_delete_main_category", text, FALSE, NoId, NoKeyboard)
         /\ answers
    ELSE /\ state_data' = [state_data EXCEPT !.delete_main_category = text]
         /\ state' = "deleting_category"
         /\ ret' = Answer("select_delete_main_category", text, TRUE, NoId,
                          "subcategories")
         /\ UNCHANGED <<stores, serVars, chatVars>>

\* select_delete_category without the test for a category with no items
select_delete_category_enters(text) ==
    LET main_category == state_data.delete_main_category
    IN  IF text = BackText
        THEN delete_item_start("select_delete_category", text)
        ELSE IF ~InList(text, MENU_CATEGORIES(main_category))
        THEN /\ ret' = Answer("select_delete_category", text, FALSE, NoId, NoKeyboard)
             /\ answers
        ELSE /\ state_data' = [state_data EXCEPT !.delete_category = text]
             /\ state' = "deleting_item_select"
             /\ ret' = Answer("select_delete_category", text, TRUE, NoId, "items")
             /\ UNCHANGED <<stores, serVars, chatVars>>

select_delete_category(text) ==
    LET main_category == state_data.delete_main_category
    IN  IF text = BackText
        THEN delete_item_start("select_delete_category", text)
        ELSE IF ~InList(text, MENU_CATEGORIES(main_category))
        THEN /\ ret' = Answer("select_delete_category", text, FALSE, NoId, NoKeyboard)
             /\ answers
        ELSE IF get_menu_items_by_category(menu_items, text) = <<>>
        THEN /\ state' = "edit_menu"
             /\ ret' = Answer("select_delete_category", text, FALSE, NoId, "edit_menu")
             /\ UNCHANGED <<stores, serVars, chatVars, state_data>>
        ELSE /\ state_data' = [state_data EXCEPT !.delete_category = text]
             /\ state' = "deleting_item_select"
             /\ ret' = Answer("select_delete_category", text, TRUE, NoId, "items")
             /\ UNCHANGED <<stores, serVars, chatVars>>

confirm_delete_item(text) ==
    LET items == get_menu_items_by_category(menu_items, state_data.delete_category)
        item == FirstOr0({i \in DOMAIN items : items[i].name = text})
    IN  IF text = BackText
        THEN /\ state' = "deleting_category"
             /\ ret' = Answer("confirm_delete_item", text, FALSE, NoId, "subcategories")
             /\ UNCHANGED <<stores, serVars, chatVars, state_data>>
        ELSE IF item = 0
        THEN /\ ret' = Answer("confirm_delete_item", text, FALSE, NoId, "edit_menu")
             /\ answers
        ELSE /\ state_data' = [state_data EXCEPT !.delete_item_id = items[item].id,
                                                 !.delete_item_name = items[item].name]
             /\ state' = "confirm_delete"
             /\ ret' = Answer("confirm_delete_item", text, TRUE, items[item].id,
                              "yes_no")
             /\ UNCHANGED <<stores, serVars, chatVars>>

\* final_delete_item that deletes the item on "❌ Нет" as well
final_delete_item_no_deletes(text, io) ==
    IF text = NoText
    THEN /\ delete_item(state_data.delete_item_id, io)
         /\ state' = "deleting_item_select"
         /\ ret' = Answer("final_delete_item", text, FALSE, NoId, "items")
         /\ UNCHANGED <<serVars, chatVars, state_data>>
    ELSE IF text = YesText
    THEN /\ delete_item(state_data.delete_item_id, io)
         /\ state' = "edit_menu"
         /\ ret' = Answer("final_delete_item", text,
                          item_index(menu_items, state_data.delete_item_id) # 0,
                          state_data.delete_item_id, "edit_menu")
         /\ UNCHANGED <<serVars, chatVars, state_data>>
    ELSE /\ ret' = Answer("final_delete_item", text, FALSE, NoId, NoKeyboard)
         /\ answers

final_delete_item(text, io) ==
    IF text = NoText
    THEN /\ state' = "deleting_item_select"
         /\ ret' = Answer("final_delete_item", text, FALSE, NoId, "items")
         /\ UNCHANGED <<stores, serVars, chatVars, state_data>>
    ELSE IF text = YesText
    THEN /\ delete_item(state_data.delete_item_id, io)
         /\ state' = "edit_menu"
         /\ ret' = Answer("final_delete_item", text,
                          item_index(menu_items, state_data.delete_item_id) # 0,
                          state_data.delete_item_id, "edit_menu")
         /\ UNCHANGED <<serVars, chatVars, state_data>>
    ELSE /\ ret' = Answer("final_delete_item", text, FALSE, NoId, NoKeyboard)
         /\ answers

---------------------------------------------------------------------------
(* One session and the stores                                              *)

\* the catalog the bot starts with, loaded from data/menu.json: "Цезарь" in
\* "Салаты" and "Мохито" in "Чай"
LoadedMenu == <<MenuItem(1, Cezar, Salaty, None), MenuItem(2, Mohito, Chay, Bar)>>

Pivo == <<"Pivo">>          \* "Пиво", a category with no item

\* the texts a session sends on its way to an order and in managing it: the
\* buttons of the keyboards, and texts that are on no keyboard
TableTexts ==
    {TableText(1), TableText(2), TableText(0), TableText(TABLE_COUNT + 1),
     <<"Stol", "abc">>, <<"stolik">>}

FixedTexts ==
    {CmdStart, MainMenuText, NewOrderText, ActiveOrdersText, BackToTablesText,
     BackToOrdersText, FinishOrderText, ConfirmCloseText, CancelCloseText}

\* an order as the keyboards show it: its table and the number of its lines
Shown(table_number, lines) ==
    [table_number |-> table_number, items |-> [i \in 1..lines |-> i]]

\* the buttons made of the orders of tables 1 and 2, which have no lines
\* here, and the key of an order of one line, which no keyboard shows
OrderTexts ==
    {OrderKey(Shown(t, 0)) : t \in {1, 2}}
        \cup {AddLinesText(Shown(t, 0)) : t \in {1, 2}}
        \cup {CloseOrderText(Shown(t, 0)) : t \in {1, 2}}
        \cup {OrderKey(Shown(1, 1))}

Texts == TableTexts \cup FixedTexts \cup OrderTexts

Init ==
    /\ menu_items = LoadedMenu
    /\ menu_file = menu_records(LoadedMenu)
    /\ orders = <<>>
    /\ orders_file = <<>>
    /\ ret = NoRet
    /\ item_ids_issued = {}
    /\ order_ids_issued = {}
    /\ InitSer
    /\ InitFsm

\* Dispatcher.feed_update: the message goes to the first handler that takes it
Update(text, now, io) ==
    \/ dispatch(state, text) = "cmd_start" /\ cmd_start(text)
    \/ dispatch(state, text) = "return_to_main_menu" /\ return_to_main_menu(text)
    \/ dispatch(state, text) = "new_order" /\ new_order(text)
    \/ dispatch(state, text) = "show_active_orders" /\ show_active_orders(text)
    \/ dispatch(state, text) = "select_table" /\ select_table(text, now, io)
    \/ dispatch(state, text) = "back_to_tables" /\ back_to_tables(text)
    \/ dispatch(state, text) = "back_to_active_orders" /\ back_to_active_orders(text)
    \/ dispatch(state, text) = "select_main_category" /\ select_main_category(text, io)
    \/ dispatch(state, text) = "view_order" /\ view_order(text)
    \/ dispatch(state, text) = "manage_order" /\ manage_order(text)
    \/ dispatch(state, text) = "confirm_close_order" /\ confirm_close_order(text, io)
    \/ dispatch(state, text) = "cancel_close_order" /\ cancel_close_order(text)

\* a message of the session, or a call on the order store from elsewhere
Next ==
    \E io \in SavesSucceed, now \in Clock :
        \/ \E text \in Texts : Update(text, now, io)
        \/ \E table_number \in TableArgs : CallCreateOrder(table_number, now, io)
        \/ \E order_id \in OrderIdArgs : CallCloseOrder(order_id, io)

Spec == Init /\ [][Next]_vars

\* the texts a session sends in taking the order of one table
TakingTexts ==
    {MainMenuText, NewOrderText, TableText(1), FinishOrderText,
     Kuhnya, Bar, Salaty, Chay, Pivo, BackToMainCategoriesText,
     BackToSubcategoriesText, Cezar, OtherQuantityText, BackText,
     CancelText} \cup QuantityTexts

UpdateTaking(text, now, io) ==
    \/ dispatch(state, text) = "return_to_main_menu" /\ return_to_main_menu(text)
    \/ dispatch(state, text) = "new_order" /\ new_order(text)
    \/ dispatch(state, text) = "select_table" /\ select_table(text, now, io)
    \/ dispatch(state, text) = "select_main_category" /\ select_main_category(text, io)
    \/ dispatch(state, text) = "select_subcategory" /\ select_subcategory(text)
    \/ dispatch(state, text) = "back_to_subcategories" /\ back_to_subcategories(text)
    \/ dispatch(state, text) = "select_menu_item" /\ select_menu_item(text)
    \/ dispatch(state, text) = "back_to_items" /\ back_to_items("back_to_items", text)
    \/ dispatch(state, text) = "process_quantity" /\ process_quantity(text, io)

\* a message of the session, or the order closed or an item deleted from
\* elsewhere
NextTaking ==
    \E io \in SavesSucceed, now \in Clock :
        \/ \E text \in TakingTexts : UpdateTaking(text, now, io)
        \/ \E order_id \in 1..MaxOrderId : CallCloseOrder(order_id, io)
        \/ \E item_id \in 1..MaxItemId : CallDeleteItem(item_id, io)

SpecTaking == Init /\ [][NextTaking]_vars

\* the texts a session sends in managing and closing the order of table 1
ClosingTexts ==
    {MainMenuText, NewOrderText, ActiveOrdersText, TableText(1), FinishOrderText,
     OrderKey(Shown(1, 0)), OrderKey(Shown(1, 1)), AddLinesText(Shown(1, 1)),
     CloseOrderText(Shown(1, 1)), ConfirmCloseText, CancelCloseText}

UpdateClosing(text, now, io) ==
    \/ dispatch(state, text) = "return_to_main_menu" /\ return_to_main_menu(text)
    \/ dispatch(state, text) = "new_order" /\ new_order(text)
    \/ dispatch(state, text) = "show_active_orders" /\ show_active_orders(text)
    \/ dispatch(state, text) = "select_table" /\ select_table(text, now, io)
    \/ dispatch(state, text) = "select_main_category" /\ select_main_category(text, io)
    \/ dispatch(state, text) = "view_order" /\ view_order(text)
    \/ dispatch(state, text) = "manage_order" /\ manage_order(text)
    \/ dispatch(state, text) = "confirm_close_order" /\ confirm_close_order(text, io)
    \/ dispatch(state, text) = "cancel_close_order" /\ cancel_close_order(text)

\* a message of the session, or a line added or the order closed from
\* elsewhere
NextClosing ==
    \E io \in SavesSucceed, now \in Clock :
        \/ \E text \in ClosingTexts : UpdateClosing(text, now, io)
        \/ \E o \in 1..MaxOrderId, m \in 1..MaxItemId : CallAddLine(o, m, str(1), io)
        \/ \E order_id \in 1..MaxOrderId : CallCloseOrder(order_id, io)

SpecClosing == Init /\ [][NextClosing]_vars

\* a session that selects, manages and closes the order of table 1, while
\* other sessions create the order of table 2, add lines and close orders
NextShared ==
    \E io \in SavesSucceed, now \in Clock :
        \/ \E text \in ClosingTexts : UpdateClosing(text, now, io)
        \/ CallCreateOrder(2, now, io)
        \/ \E o \in 1..2 : CallAddLine(o, 1, str(1), io)
        \/ \E order_id \in 1..2 : CallCloseOrder(order_id, io)

SpecShared == Init /\ [][NextShared]_vars

\* a catalog in which the name of one item of a category begins the name of
\* another: "Цезарь" and "Цезарь с курицей"
CezarSKuritsey == <<"Cezar", "s", "kuritsey">>

PrefixMenu ==
    <<MenuItem(1, Cezar, Salaty, Kuhnya), MenuItem(2, CezarSKuritsey, Salaty, Kuhnya)>>

ChoosingTexts ==
    {MainMenuText, NewOrderText, TableText(1), FinishOrderText, Kuhnya, Salaty,
     BackToSubcategoriesText, Cezar, CezarSKuritsey, Mohito, BackText, str(1), str(2)}

InitChoosing ==
    /\ menu_items = PrefixMenu
    /\ menu_file = menu_records(PrefixMenu)
    /\ orders = <<>>
    /\ orders_file = <<>>
    /\ ret = NoRet
    /\ item_ids_issued = {}
    /\ order_ids_issued = {}
    /\ InitSer
    /\ InitFsm

\* the messages of a session that takes an order from the catalog
NextChoosing ==
    \E io \in SavesSucceed, now \in Clock, text \in ChoosingTexts :
        UpdateTaking(text, now, io)

SpecChoosing == InitChoosing /\ [][NextChoosing]_vars

\* the texts a session sends in adding items to the menu: the buttons, the
\* name typed, and with them texts that are on no keyboard of the state
MenuTexts ==
    {MainMenuText, MenuText, EditMenuText, AddItemText, BackToMenuText, BackText,
     Kuhnya, Bar, Salaty, Chay, Cezar}

\* the names typed for a new item
ItemNames == {Cezar}

\* the bot on its first start: no data file, so both stores are empty
InitMenu ==
    /\ menu_items = <<>>
    /\ menu_file = <<>>
    /\ orders = <<>>
    /\ orders_file = <<>>
    /\ ret = NoRet
    /\ item_ids_issued = {}
    /\ order_ids_issued = {}
    /\ InitSer
    /\ InitFsm

UpdateMenu(text, io) ==
    \/ dispatch(state, text) = "return_to_main_menu" /\ return_to_main_menu(text)
    \/ dispatch(state, text) = "show_menu" /\ show_menu(text)
    \/ dispatch(state, text) = "handle_main_menu" /\ handle_main_menu(text)
    \/ dispatch(state, text) = "handle_edit_menu" /\ handle_edit_menu(text)
    \/ dispatch(state, text) = "back_to_menu" /\ back_to_menu("back_to_menu", text)
    \/ dispatch(state, text) = "select_add_main_category"
          /\ select_add_main_category(text)
    \/ dispatch(state, text) = "select_add_category" /\ select_add_category(text)
    \/ dispatch(state, text) = "process_item_name"
          /\ text \in ItemNames \cup {BackText}
          /\ process_item_name(text, io)

\* add_item called with no main category
DerivedArgs == {<<SalatCezar, Salaty, None>>, <<Mohito, Chay, None>>,
                <<Cezar, Sushi, None>>}

\* a message of the session, or an item added or deleted from elsewhere
NextMenu ==
    \E io \in SavesSucceed :
        \/ \E text \in MenuTexts : UpdateMenu(text, io)
        \/ \E a \in DerivedArgs : CallAddItem(a[1], a[2], a[3], io)
        \/ \E item_id \in 1..MaxItemId : CallDeleteItem(item_id, io)

SpecMenu == InitMenu /\ [][NextMenu]_vars

\* the states of OrderStates and MenuStates, and no state
SessionStates ==
    {NoState, "selecting_table", "selecting_main_category", "selecting_category",
     "selecting_menu_item", "entering_quantity", "viewing_order", "managing_order",
     "confirm_close", "main_menu", "edit_menu", "adding_item_main_category",
     "adding_item_category", "adding_item_name", "deleting_main_category",
     "deleting_category", "deleting_item_select", "confirm_delete"}

\* the texts that lead a session through both dialogues: buttons of the
\* keyboards, the name and the quantity typed, "/start" and the main-menu text
SessionTexts ==
    {CmdStart, MainMenuText, NewOrderText, ActiveOrdersText, TableText(1),
     FinishOrderText, Kuhnya, Salaty, Cezar, str(1), OrderKey(Shown(1, 0)),
     OrderKey(Shown(1, 1)), CloseOrderText(Shown(1, 1)), ConfirmCloseText,
     MenuText, EditMenuText, AddItemText, DeleteItemText, YesText}

\* the texts of SessionTexts on the keyboard the session has in state st;
\* "/start" and the main-menu text are sent in every state
Buttons(st) ==
    {CmdStart, MainMenuText} \cup
    (CASE st = NoState -> {NewOrderText, ActiveOrdersText, MenuText}
       [] st = "selecting_table" -> {TableText(1)}
       [] st = "selecting_table" -> {TableText(1)}
       [] st = "selecting_main_category" -> {Kuhnya, FinishOrderText}
       [] st \in {"adding_item_main_category", "deleting_main_category"} -> {Kuhnya}
       [] st \in {"selecting_category", "adding_item_category", "deleting_category"}
             -> {Salaty}
       [] st \in {"selecting_menu_item", "adding_item_name", "deleting_item_select"}
             -> {Cezar}
       [] st = "entering_quantity" -> {str(1)}
       [] st = "viewing_order" -> {OrderKey(Shown(1, 0)), OrderKey(Shown(1, 1))}
       [] st = "managing_order" -> {CloseOrderText(Shown(1, 1))}
       [] st = "confirm_close" -> {ConfirmCloseText}
       [] st = "main_menu" -> {EditMenuText}
       [] st = "edit_menu" -> {AddItemText, DeleteItemText}
       [] st = "confirm_delete" -> {YesText}
       [] OTHER -> {})

\* the session in state st sends text, and the dispatcher gives it to handler
sends(st, text, handler) == text \in Buttons(st) /\ dispatch(st, text) = handler

\* the catalog holds "Цезарь" in "Салаты"
InitSession ==
    /\ menu_items = <<MenuItem(1, Cezar, Salaty, None)>>
    /\ menu_file = menu_records(menu_items)
    /\ orders = <<>>
    /\ orders_file = <<>>
    /\ ret = NoRet
    /\ item_ids_issued = {}
    /\ order_ids_issued = {}
    /\ InitSer
    /\ InitFsm

UpdateSession(text, now, io) ==
    \/ sends(state, text, "cmd_start") /\ cmd_start(text)
    \/ sends(state, text, "return_to_main_menu") /\ return_to_main_menu(text)
    \/ sends(state, text, "show_menu") /\ show_menu(text)
    \/ sends(state, text, "handle_main_menu") /\ handle_main_menu(text)
    \/ sends(state, text, "handle_edit_menu") /\ handle_edit_menu(text)
    \/ sends(state, text, "select_add_main_category")
          /\ select_add_main_category(text)
    \/ sends(state, text, "select_add_category") /\ select_add_category(text)
    \/ sends(state, text, "process_item_name")
          /\ process_item_name(text, io)
    \/ sends(state, text, "select_delete_main_category")
          /\ select_delete_main_category(text)
    \/ sends(state, text, "select_delete_category") /\ select_delete_category(text)
    \/ sends(state, text, "confirm_delete_item") /\ confirm_delete_item(text)
    \/ sends(state, text, "final_delete_item") /\ final_delete_item(text, io)
    \/ sends(state, text, "new_order") /\ new_order(text)
    \/ sends(state, text, "show_active_orders") /\ show_active_orders(text)
    \/ sends(state, text, "select_table") /\ select_table(text, now, io)
    \/ sends(state, text, "select_main_category") /\ select_main_category(text, io)
    \/ sends(state, text, "select_subcategory") /\ select_subcategory(text)
    \/ sends(state, text, "select_menu_item") /\ select_menu_item(text)
    \/ sends(state, text, "process_quantity") /\ process_quantity(text, io)
    \/ sends(state, text, "view_order") /\ view_order(text)
    \/ sends(state, text, "manage_order") /\ manage_order(text)
    \/ sends(state, text, "confirm_close_order") /\ confirm_close_order(text, io)

NextSession ==
    \E io \in SavesSucceed, now \in Clock, text \in SessionTexts :
        UpdateSession(text, now, io)

SpecSession == InitSession /\ [][NextSession]_vars

\* the session of SpecSession, while other sessions delete catalog items and
\* add "Мохито" to "Чай"
NextCatalog ==
    \E io \in SavesSucceed, now \in Clock :
        \/ \E text \in SessionTexts : UpdateSession(text, now, io)
        \/ \E item_id \in 1..MaxItemId : CallDeleteItem(item_id, io)
        \/ CallAddItem(Mohito, Chay, None, io)

SpecCatalog == InitSession /\ [][NextCatalog]_vars

\* the texts of a session that edits the menu and takes orders, with the
\* buttons that lead back, as the keyboards of the states show them
ButtonTexts ==
    {MainMenuText, NewOrderText, TableText(1), FinishOrderText, Kuhnya, Salaty,
     Cezar, str(1), MenuText, EditMenuText, AddItemText, DeleteItemText, YesText,
     BackToMenuText, BackText, NoText, BackToMainCategoriesText,
     BackToSubcategoriesText}

AllButtons(st) ==
    Buttons(st) \cup
    (CASE st = "edit_menu" -> {BackToMenuText}
       [] st \in {"adding_item_main_category", "adding_item_category",
                  "adding_item_name", "deleting_main_category", "deleting_category",
                  "deleting_item_select", "entering_quantity"} -> {BackText}
       [] st = "confirm_delete" -> {NoText}
       [] st = "selecting_category" -> {BackToMainCategoriesText}
       [] st = "selecting_menu_item" -> {BackToSubcategoriesText}
       [] OTHER -> {})

\* the session in state st presses text, and the dispatcher gives it to handler
presses(st, text, handler) == text \in AllButtons(st) /\ dispatch(st, text) = handler

UpdateButtons(text, now, io) ==
    \/ presses(state, text, "return_to_main_menu") /\ return_to_main_menu(text)
    \/ presses(state, text, "show_menu") /\ show_menu(text)
    \/ presses(state, text, "handle_main_menu") /\ handle_main_menu(text)
    \/ presses(state, text, "handle_edit_menu") /\ handle_edit_menu(text)
    \/ presses(state, text, "select_add_main_category")
          /\ select_add_main_category(text)
    \/ presses(state, text, "select_add_category") /\ select_add_category(text)
    \/ presses(state, text, "process_item_name")
          /\ process_item_name(text, io)
    \/ presses(state, text, "select_delete_main_category")
          /\ select_delete_main_category(text)
    \/ presses(state, text, "select_delete_category") /\ select_delete_category(text)
    \/ presses(state, text, "confirm_delete_item") /\ confirm_delete_item(text)
    \/ presses(state, text, "final_delete_item") /\ final_delete_item(text, io)
    \/ presses(state, text, "new_order") /\ new_order(text)
    \/ presses(state, text, "select_table") /\ select_table(text, now, io)
    \/ presses(state, text, "select_main_category") /\ select_main_category(text, io)
    \/ presses(state, text, "select_subcategory") /\ select_subcategory(text)
    \/ presses(state, text, "back_to_subcategories") /\ back_to_subcategories(text)
    \/ presses(state, text, "select_menu_item") /\ select_menu_item(text)
    \/ presses(state, text, "back_to_items") /\ back_to_items("back_to_items", text)
    \/ presses(state, text, "process_quantity") /\ process_quantity(text, io)

NextButtons ==
    \E io \in SavesSucceed, now \in Clock, text \in ButtonTexts :
        UpdateButtons(text, now, io)

SpecButtons == InitSession /\ [][NextButtons]_vars

\* the names typed for the item of the tour
TourNames == {Cezar, Mohito}

\* the texts of a session that goes through every state of both dialogues
TourTexts ==
    {MainMenuText, MenuText, EditMenuText, AddItemText, DeleteItemText, NoText,
     NewOrderText, ActiveOrdersText, FinishOrderText, ConfirmCloseText,
     TableText(1), TableText(2)}
        \cup Range(MAIN_CATEGORIES) \cup Range(KuhnyaCategories)
        \cup Range(BarCategories) \cup TourNames
        \cup {str(q) : q \in 1..MaxLineQty}
        \cup {OrderKey(Shown(t, n)) : t \in 1..2, n \in 1..MaxLineQty}
        \cup {CloseOrderText(Shown(t, 0)) : t \in 1..2}

\* the texts that lead the session on from its state: first an item is
\* added to the empty catalog, then the delete dialogue is walked up to its
\* confirmation and left, then an order is taken, finished, viewed and closed
TourSends(st, data, items, os, last) ==
    CASE st = NoState ->
            IF items = <<>> THEN {MenuText}
            ELSE IF os # <<>> THEN {ActiveOrdersText}
            ELSE IF last.op # "confirm_close_order" THEN {NewOrderText}
            ELSE {}
      [] st = "main_menu" -> {EditMenuText}
      [] st = "edit_menu" -> IF items = <<>> THEN {AddItemText} ELSE {DeleteItemText}
      [] st = "adding_item_main_category" -> Range(MAIN_CATEGORIES)
      [] st = "adding_item_category"
            -> Range(MENU_CATEGORIES(data.new_item_main_category))
      [] st = "adding_item_name" -> TourNames
      [] st = "deleting_main_category" -> {items[1].main_category}
      [] st = "deleting_category" -> {items[1].category}
      [] st = "deleting_item_select"
            -> IF last.op = "final_delete_item" THEN {MainMenuText}
               ELSE {items[1].name}
      [] st = "confirm_delete" -> {NoText}
      [] st = "selecting_table" -> {TableText(1), TableText(2)}
      [] st = "selecting_main_category"
            -> IF \E o \in Range(os) : o.items # <<>>
               THEN {FinishOrderText}
               ELSE {items[1].main_category}
      [] st = "selecting_category" -> {items[1].category}
      [] st = "selecting_menu_item" -> {items[1].name}
      [] st = "entering_quantity" -> {str(q) : q \in 1..MaxLineQty}
      [] st = "viewing_order" -> DOMAIN data.active_orders
      [] st = "managing_order"
            -> {CloseOrderText(o) : o \in Range(os)}
      [] st = "confirm_close"
            -> IF os # <<>> THEN {ConfirmCloseText} ELSE {}
      [] OTHER -> {}

\* the session of the tour sends text, and the dispatcher gives it to handler
tours(text, handler) ==
    /\ text \in TourSends(state, state_data, menu_items, orders, ret)
    /\ dispatch(state, text) = handler

UpdateTour(text, now, io) ==
    \/ tours(text, "return_to_main_menu") /\ return_to_main_menu(text)
    \/ tours(text, "show_menu") /\ show_menu(text)
    \/ tours(text, "handle_main_menu") /\ handle_main_menu(text)
    \/ tours(text, "handle_edit_menu") /\ handle_edit_menu(text)
    \/ tours(text, "select_add_main_category") /\ select_add_main_category(text)
    \/ tours(text, "select_add_category") /\ select_add_category(text)
    \/ tours(text, "process_item_name") /\ process_item_name(text, io)
    \/ tours(text, "select_delete_main_category") /\ select_delete_main_category(text)
    \/ tours(text, "select_delete_category") /\ select_delete_category(text)
    \/ tours(text, "confirm_delete_item") /\ confirm_delete_item(text)
    \/ tours(text, "final_delete_item") /\ final_delete_item(text, io)
    \/ tours(text, "new_order") /\ new_order(text)
    \/ tours(text, "show_active_orders") /\ show_active_orders(text)
    \/ tours(text, "select_table") /\ select_table(text, now, io)
    \/ tours(text, "select_main_category") /\ select_main_category(text, io)
    \/ tours(text, "select_subcategory") /\ select_subcategory(text)
    \/ tours(text, "select_menu_item") /\ select_menu_item(text)
    \/ tours(text, "process_quantity") /\ process_quantity(text, io)
    \/ tours(text, "view_order") /\ view_order(text)
    \/ tours(text, "manage_order") /\ manage_order(text)
    \/ tours(text, "confirm_close_order") /\ confirm_close_order(text, io)

NextTour ==
    \E io \in SavesSucceed, now \in Clock, text \in TourTexts :
        UpdateTour(text, now, io)

\* the session goes on sending: each message of the tour is sent in the end
SpecTour == InitMenu /\ [][NextTour]_vars /\ WF_vars(NextTour)

---------------------------------------------------------------------------
(* Several chats: main.py, Dispatcher(storage=MemoryStorage())             *)

\* a storage that keeps the state of a chat and not its data
park_forgets(store, from, st, data, to) ==
    [c \in (DOMAIN store \cup {from}) \ {to} |->
        IF c = from THEN Session(st, NoData) ELSE store[c]]

\* the storage once the record of chat from is put back and that of chat to
\* is taken out to be handled
park(store, from, st, data, to) ==
    [c \in (DOMAIN store \cup {from}) \ {to} |->
        IF c = from THEN Session(st, data) ELSE store[c]]

\* the next event is one of chat c: the handlers get the FSMContext of c
Turn(c) ==
    /\ c \in Chats \ {chat}
    /\ chat' = c
    /\ state' = storage[c].state
    /\ state_data' = storage[c].data
    /\ storage' = park(storage, chat, state, state_data, c)
    /\ UNCHANGED <<stores, ret, serVars, tasks>>

\* the texts chat 2 sends: the way to the categories of an item to delete
SecondTexts == {MenuText, EditMenuText, DeleteItemText, Kuhnya}

\* the chat being handled sends text, and the dispatcher gives it to handler
says(text, handler) ==
    /\ text \in Buttons(state)
    /\ chat = 1 \/ text \in SecondTexts
    /\ dispatch(state, text) = handler

UpdateChats(text, now, io) ==
    \/ says(text, "cmd_start") /\ cmd_start(text)
    \/ says(text, "return_to_main_menu") /\ return_to_main_menu(text)
    \/ says(text, "show_menu") /\ show_menu(text)
    \/ says(text, "handle_main_menu") /\ handle_main_menu(text)
    \/ says(text, "handle_edit_menu") /\ handle_edit_menu(text)
    \/ says(text, "select_add_main_category")
          /\ select_add_main_category(text)
    \/ says(text, "select_add_category") /\ select_add_category(text)
    \/ says(text, "process_item_name")
          /\ process_item_name(text, io)
    \/ says(text, "select_delete_main_category")
          /\ select_delete_main_category(text)
    \/ says(text, "select_delete_category") /\ select_delete_category(text)
    \/ says(text, "confirm_delete_item") /\ confirm_delete_item(text)
    \/ says(text, "final_delete_item") /\ final_delete_item(text, io)
    \/ says(text, "new_order") /\ new_order(text)
    \/ says(text, "show_active_orders") /\ show_active_orders(text)
    \/ says(text, "select_table") /\ select_table(text, now, io)
    \/ says(text, "select_main_category") /\ select_main_category(text, io)
    \/ says(text, "select_subcategory") /\ select_subcategory(text)
    \/ says(text, "select_menu_item") /\ select_menu_item(text)
    \/ says(text, "process_quantity") /\ process_quantity(text, io)
    \/ says(text, "view_order") /\ view_order(text)
    \/ says(text, "manage_order") /\ manage_order(text)
    \/ says(text, "confirm_close_order") /\ confirm_close_order(text, io)

\* chat 1 sends the texts of SpecSession and chat 2 those of SecondTexts
NextChats ==
    \E io \in SavesSucceed, now \in Clock :
        \/ \E text \in SessionTexts : UpdateChats(text, now, io)
        \/ \E c \in Chats : Turn(c)

SpecChats == InitSession /\ [][NextChats]_vars

---------------------------------------------------------------------------
(* Handlers as tasks: a handler runs from one await to the next, and the   *)
(* handlers of other chats run in between (order_handlers.py 209-266 and   *)
(* 502-558)                                                                *)

\* the handler of the chat being handled is not running
idle == tasks[chat].pc = "idle"

\* the handler of the chat being handled waits at the await named pc
waits(pc) == tasks[chat].pc = pc

\* the handler goes on to its next await, or returns
goes(task) == tasks' = [tasks EXCEPT ![chat] = task]

\* select_table up to its first await: from the table's text to the order
\* found or created, in one piece
select_table_begin(text, now, io) ==
    /\ idle
    /\ dispatch(state, text) = "select_table"
    /\ startswith(text, StolPrefix) /\ table_parses(text)
    /\ table_in_range(int(<<text[2]>>))
    /\ LET table_number == int(<<text[2]>>)
           existing_order == table_order_index(orders, table_number)
       IN  IF existing_order # 0
           THEN /\ goes([Idle EXCEPT !.pc = "existing_update_data", !.text = text,
                                     !.order_id = orders[existing_order].id])
                /\ UNCHANGED stores
           ELSE /\ new_order_id(orders) <= MaxOrderId
                /\ create_order(table_number, now, io)
                /\ goes([Idle EXCEPT !.pc = "created_update_data", !.text = text,
                           !.order_id =
                               orders'[created_index(orders, table_number)].id])
    /\ UNCHANGED <<ret, serVars, fsmVars, chat, storage>>

\* await state.update_data(current_order_id=...)
select_table_update_data ==
    /\ waits("existing_update_data") \/ waits("created_update_data")
    /\ state_data' = [state_data EXCEPT !.current_order_id = tasks[chat].order_id]
    /\ goes([tasks[chat] EXCEPT !.pc = IF waits("existing_update_data")
                                       THEN "existing_set_state"
                                       ELSE "created_set_state"])
    /\ UNCHANGED <<stores, ret, serVars, state, chat, storage>>

\* await state.set_state(...)
select_table_set_state ==
    /\ waits("existing_set_state") \/ waits("created_set_state")
    /\ state' = IF waits("existing_set_state") THEN "managing_order"
                ELSE "selecting_main_category"
    /\ goes([tasks[chat] EXCEPT !.pc = IF waits("existing_set_state")
                                       THEN "existing_answer"
                                       ELSE "created_answer"])
    /\ UNCHANGED <<stores, ret, serVars, state_data, chat, storage>>

\* await message.answer(...)
select_table_answer ==
    /\ waits("existing_answer") \/ waits("created_answer")
    /\ ret' = Answer("select_table", tasks[chat].text, TRUE, tasks[chat].order_id,
                     IF waits("existing_answer") THEN "order_actions"
                     ELSE "main_categories")
    /\ goes(Idle)
    /\ UNCHANGED <<stores, serVars, fsmVars, chat, storage>>

\* process_quantity with a quantity, up to the first await of
\* add_item_with_quantity
process_quantity_begin(text) ==
    /\ idle
    /\ dispatch(state, text) = "process_quantity"
    /\ parse_quantity(text) # 0
    /\ goes([Idle EXCEPT !.pc = "get_data", !.text = text,
                         !.quantity = parse_quantity(text)])
    /\ UNCHANGED <<stores, ret, serVars, fsmVars, chat, storage>>

\* a handler that writes the quantity it was given over the line's quantity
add_item_with_quantity_sets(io) ==
    /\ waits("get_data")
    /\ LET order_id == state_data.current_order_id
           item_id == state_data.current_item_id
           order == order_index(orders, order_id)
           item == item_index(menu_items, item_id)
           i == line_index(orders[order].items, menu_items[item])
       IN  IF order = 0 \/ item = 0
           THEN /\ goes([tasks[chat] EXCEPT !.pc = "missing_answer"])
                /\ UNCHANGED stores
           ELSE /\ orders' = [orders EXCEPT ![order].items =
                      IF i # 0
                      THEN [@ EXCEPT ![i].quantity = tasks[chat].quantity]
                      ELSE Append(@, OrderItem(menu_items[item],
                                               tasks[chat].quantity))]
                /\ orders_file' \in save(io, order_records(orders'), orders_file)
                /\ UNCHANGED <<menu_items, menu_file, item_ids_issued,
                               order_ids_issued>>
                /\ goes([tasks[chat] EXCEPT !.pc = "added_set_state",
                                            !.order_id = order_id,
                                            !.item_id = item_id])
    /\ UNCHANGED <<ret, serVars, fsmVars, chat, storage>>

\* data = await state.get_data(), and on to the next await: the order and
\* the item are looked up and the line is added and saved in one piece
add_item_with_quantity_add(io) ==
    /\ waits("get_data")
    /\ LET order_id == state_data.current_order_id
           item_id == state_data.current_item_id
           order == order_index(orders, order_id)
           item == item_index(menu_items, item_id)
       IN  IF order = 0 \/ item = 0
           THEN /\ goes([tasks[chat] EXCEPT !.pc = "missing_answer"])
                /\ UNCHANGED stores
           ELSE /\ line_quantity_after(order, item, tasks[chat].quantity)
                      <= MaxLineQty
                /\ add_line(order, item, tasks[chat].quantity, io)
                /\ goes([tasks[chat] EXCEPT !.pc = "added_set_state",
                                            !.order_id = order_id,
                                            !.item_id = item_id])
    /\ UNCHANGED <<ret, serVars, fsmVars, chat, storage>>

\* await state.set_state(OrderStates.selecting_main_category)
add_item_with_quantity_set_state ==
    /\ waits("added_set_state")
    /\ state' = "selecting_main_category"
    /\ goes([tasks[chat] EXCEPT !.pc = "added_answer"])
    /\ UNCHANGED <<stores, ret, serVars, state_data, chat, storage>>

\* await message.answer(...)
add_item_with_quantity_answer ==
    /\ waits("missing_answer") \/ waits("added_answer")
    /\ ret' = IF waits("missing_answer")
              THEN Answer("process_quantity", tasks[chat].text, FALSE, NoId, "main")
              ELSE [Answer("process_quantity", tasks[chat].text, TRUE,
                           tasks[chat].item_id, "main_categories")
                       EXCEPT !.quantity = tasks[chat].quantity]
    /\ goes(Idle)
    /\ UNCHANGED <<stores, serVars, fsmVars, chat, storage>>

\* the texts of two waiters who take orders
TaskTexts ==
    {NewOrderText, TableText(1), TableText(2), AddLinesText(Shown(1, 0)),
     AddLinesText(Shown(2, 0)), Kuhnya, Salaty, Cezar, str(1)}

\* the texts of TaskTexts that lead on from state st; the waiter of chat 1
\* serves table 1 only
TaskButtons(c, st) ==
    CASE st = NoState -> {NewOrderText}
      [] st = "selecting_table" -> {TableText(j) : j \in IF c = 1 THEN {1} ELSE {1, 2}}
      [] st = "managing_order" -> {AddLinesText(Shown(1, 0)), AddLinesText(Shown(2, 0))}
      [] st = "selecting_main_category" -> {Kuhnya}
      [] st = "selecting_category" -> {Salaty}
      [] st = "selecting_menu_item" -> {Cezar}
      [] st = "entering_quantity" -> {str(1)}
      [] OTHER -> {}

\* the chat being handled, with no handler running, sends text, and the
\* dispatcher gives it to handler
asks(text, handler) ==
    /\ idle
    /\ text \in TaskButtons(chat, state)
    /\ dispatch(state, text) = handler

\* the handlers that change no store run in one piece; select_table and
\* process_quantity run from await to await
UpdateTasks(text, now, io) ==
    \/ asks(text, "new_order") /\ new_order(text)
    \/ asks(text, "manage_order") /\ manage_order(text)
    \/ asks(text, "select_main_category") /\ select_main_category(text, io)
    \/ asks(text, "select_subcategory") /\ select_subcategory(text)
    \/ asks(text, "select_menu_item") /\ select_menu_item(text)
    \/ asks(text, "select_table") /\ select_table_begin(text, now, io)
    \/ asks(text, "process_quantity") /\ process_quantity_begin(text)

\* the handlers of the two chats, and the store calls of the handlers of
\* further chats, which add an item to the catalog and close orders
NextTasks ==
    \E io \in SavesSucceed, now \in Clock :
        \/ \E text \in TaskTexts : UpdateTasks(text, now, io)
        \/ select_table_update_data
        \/ select_table_set_state
        \/ select_table_answer
        \/ add_item_with_quantity_add(io)
        \/ add_item_with_quantity_set_state
        \/ add_item_with_quantity_answer
        \/ \E c \in Chats : Turn(c)
        \/ CallAddItem(Mohito, Chay, Bar, io)
        \/ \E order_id \in 1..MaxOrderId : CallCloseOrder(order_id, io)

SpecTasks == InitSession /\ [][NextTasks]_vars

---------------------------------------------------------------------------
(* Serialization round trip: to_dict, then from_dict                       *)


\* menu items as MenuItem.__init__ makes them
SampleItems ==
    {MenuItem(id, name, category, main_category) :
        id \in 1..MaxItemId, name \in {Cezar, Mohito},
        category \in {Salaty, Chay, Sushi}, main_category \in {None, Kuhnya, Bar}}

SampleLines ==
    {<<>>} \cup
    {<<OrderItem(m, q)>> : m \in {MenuItem(1, Cezar, Salaty, None),
                                  MenuItem(2, Mohito, Salaty, Bar)},
                           q \in 1..MaxLineQty} \cup
    {<<OrderItem(MenuItem(1, Cezar, Salaty, None), 1),
       OrderItem(MenuItem(2, Mohito, Chay, None), q)>> : q \in 1..MaxLineQty}

SampleClock == {<<"2026-11-02T12:00:00">>, <<"2026-11-02T12:30:00.250000">>}

\* what datetime.now() returns when the record is read back, later
LaterNow == <<"2026-11-03T09:00:00">>

\* orders as OrderManager.create_order, Order.add_item and close_order make them
SampleOrders ==
    {[Order(id, table_number, <<>>, None, TRUE, now)
         EXCEPT !.items = items, !.is_active = is_active] :
        id \in 1..MaxOrderId, table_number \in {1, TABLE_COUNT},
        items \in SampleLines, is_active \in BOOLEAN, now \in SampleClock}

InitSerial ==
    /\ InitStores
    /\ sample \in [kind : {"MenuItem"}, obj : SampleItems]
                    \cup [kind : {"Order"}, obj : SampleOrders]
    /\ record = None
    /\ restored = None
    /\ ser_pc = "object"
    /\ InitFsm

\* item.to_dict() or order.to_dict()
Serialize ==
    /\ ser_pc = "object"
    /\ record' = IF sample.kind = "MenuItem"
                 THEN MenuItem_to_dict(sample.obj)
                 ELSE Order_to_dict(sample.obj)
    /\ ser_pc' = "record"
    /\ UNCHANGED <<storeVars, histVars, sample, restored, fsmVars, chatVars>>

\* MenuItem.from_dict(record) or Order.from_dict(record)
Deserialize ==
    /\ ser_pc = "record"
    /\ restored' = IF sample.kind = "MenuItem"
                   THEN MenuItem_from_dict(record)
                   ELSE Order_from_dict(record, LaterNow)
    /\ ser_pc' = "restored"
    /\ UNCHANGED <<storeVars, histVars, sample, record, fsmVars, chatVars>>

NextSerial == Serialize \/ Deserialize

SpecSerial == InitSerial /\ [][NextSerial]_vars

---------------------------------------------------------------------------
(* The start of the process on files of every shape                       *)

\* what data/menu.json can hold when the process starts: the three shapes
\* that are no list, lists this program wrote, a list of an older version
\* (no main_category) and a list of a record without its name
MenuFiles ==
    {Absent, NotAList, Broken, <<>>,
     menu_records(<<MenuItem(1, Cezar, Salaty, None)>>),
     menu_records(<<MenuItem(1, Cezar, Salaty, None), MenuItem(2, Mohito, Chay, Bar)>>),
     <<[id |-> 1, name |-> Cezar, category |-> Salaty]>>,
     <<[id |-> 1, category |-> Salaty]>>}

\* what data/orders.json can hold: an order is in it active or, after
\* close_order, inactive
OrdersFiles ==
    {Absent, NotAList, Broken, <<>>,
     <<[id |-> 1, table_number |-> 1]>>}
    \cup {order_records(<<o1>>) : o1 \in {o \in SampleOrders : o.id = 1 /\ o.table_number = 1}}

InitStartup ==
    /\ menu_items = <<>>
    /\ orders = <<>>
    /\ menu_file \in MenuFiles
    /\ orders_file \in OrdersFiles
    /\ sample = [menu |-> menu_file, orders |-> orders_file]
    /\ record = None
    /\ restored = None
    /\ ser_pc = "none"
    /\ ret = NoRet
    /\ item_ids_issued = {}
    /\ order_ids_issued = {}
    /\ InitFsm

NextStartup == \E io \in SavesSucceed, now \in Clock : Restart(now, io)

SpecStartup == InitStartup /\ [][NextStartup]_vars

---------------------------------------------------------------------------
(* The texts that list an order: the summary and the receipt               *)

ungrouped_item(items_by_category, item) ==
    Append(items_by_category,
           [category |-> item.menu_item.category, items |-> <<item>>])

\* the body of "for item in order.items" : the dict keeps its keys in
\* the order of insertion, here a list of [category, items]
group_item(items_by_category, item) ==
    LET category == item.menu_item.category
        known == {g \in DOMAIN items_by_category :
                      items_by_category[g].category = category}
    IN IF known = {}
       THEN Append(items_by_category, [category |-> category, items |-> <<item>>])
       ELSE [g \in DOMAIN items_by_category |->
                IF g \in known
                THEN [items_by_category[g] EXCEPT !.items = Append(@, item)]
                ELSE items_by_category[g]]

RECURSIVE group_by_category(_)
group_by_category(items) ==
    IF items = <<>>
    THEN <<>>
    ELSE group_item(group_by_category(SubSeq(items, 1, Len(items) - 1)),
                    items[Len(items)])

\* "<b>{category}:</b>" and under it "{i}. {menu_item.name} x{item.quantity}"
category_rows(group) ==
    <<[kind |-> "category", category |-> group.category]>> \o
    [i \in DOMAIN group.items |->
        [kind |-> "line", i |-> i, name |-> group.items[i].menu_item.name,
         quantity |-> group.items[i].quantity]]

RECURSIVE rows_of(_)
rows_of(items_by_category) ==
    IF items_by_category = <<>>
    THEN <<>>
    ELSE category_rows(Head(items_by_category)) \o rows_of(Tail(items_by_category))

\* the rows of the text, one record per line of text
format_order_text(order) ==
    <<[kind |-> "title", id |-> order.id, table_number |-> order.table_number]>> \o
    IF order.items = <<>>
    THEN <<[kind |-> "empty"]>>
    ELSE rows_of(group_by_category(order.items))

\* the receipt that confirm_close_order sends
receipt(order) ==
    <<[kind |-> "closed", id |-> order.id, table_number |-> order.table_number]>> \o
    rows_of(group_by_category(order.items))

MaxReceiptLines == 3

\* snapshots that lines can carry: two of one category with another between
ReceiptItems ==
    <<MenuItem(1, Cezar, Salaty, Kuhnya), MenuItem(2, Mohito, Chay, Bar),
      MenuItem(3, SalatCezar, Salaty, Kuhnya), MenuItem(4, Cezar, Sushi, Kuhnya)>>

\* lines as Order.add_item makes them: one line per item id, quantity >= 1
ReceiptLines ==
    LET choices == UNION {[1..n -> DOMAIN ReceiptItems] : n \in 0..MaxReceiptLines}
        distinct == {c \in choices : \A i, j \in DOMAIN c : c[i] = c[j] => i = j}
    IN UNION {{[i \in DOMAIN c |-> OrderItem(ReceiptItems[c[i]], q[i])] :
                  q \in [DOMAIN c -> 1..MaxLineQty]} : c \in distinct}

InitReceipt ==
    /\ InitStores
    /\ sample \in [kind : {"summary", "receipt"},
                   obj : {[Order(1, 1, <<>>, None, TRUE, <<"2026-11-02T12:00:00">>)
                              EXCEPT !.items = items] : items \in ReceiptLines}]
    /\ record = None
    /\ restored = None
    /\ ser_pc = "object"
    /\ InitFsm

\* format_order_text(order)
FormatSummary ==
    /\ ser_pc = "object"
    /\ sample.kind = "summary"
    /\ record' = format_order_text(sample.obj)
    /\ ser_pc' = "text"
    /\ UNCHANGED <<storeVars, histVars, sample, restored, fsmVars, chatVars>>

\* the receipt of confirm_close_order
FormatReceipt ==
    /\ ser_pc = "object"
    /\ sample.kind = "receipt"
    /\ record' = receipt(sample.obj)
    /\ ser_pc' = "text"
    /\ UNCHANGED <<storeVars, histVars, sample, restored, fsmVars, chatVars>>

NextReceipt == FormatSummary \/ FormatReceipt

SpecReceipt == InitReceipt /\ [][NextReceipt]_vars

\* C10: to_dict followed by from_dict gives back the MenuItem or the Order
\* (with its lines) field for field, and the record of what is given back
\* is the record it was made from
C10_RoundTrip ==
    ser_pc = "restored" =>
        /\ DOMAIN restored = DOMAIN sample.obj
        /\ \A f \in DOMAIN restored : restored[f] = sample.obj[f]
        /\ (sample.kind = "MenuItem" => MenuItem_to_dict(restored) = record)
        /\ (sample.kind = "Order" => Order_to_dict(restored) = record)

\* C10's case: an order with a line of an item whose main category is not
\* the one of its category has gone through to_dict and from_dict
C10_Witness ==
    /\ ser_pc = "restored"
    /\ sample.kind = "Order"
    /\ Len(restored.items) = 1
    /\ restored.items[1].menu_item.main_category
          # determine_main_category(restored.items[1].menu_item.category)

---------------------------------------------------------------------------
(* Properties of the dialogue and the order store together                 *)

\* C1: in every reachable state each table has at most one active order in
\* the order store, whatever the session sent and whatever create_order and
\* close_order calls were made from elsewhere
C1_OneActiveOrderPerTable ==
    \A i, j \in DOMAIN orders :
        (/\ orders[i].is_active /\ orders[j].is_active
         /\ orders[i].table_number = orders[j].table_number) => i = j

\* C1's case: two tables have their orders, and the session that selected
\* one of these tables was given the table's order
C1_Witness ==
    /\ ret.op = "select_table" /\ ret.reply_markup = "order_actions"
    /\ state = "managing_order"
    /\ Len(orders) = 2
    /\ \E i \in DOMAIN orders :
          /\ orders[i].id = state_data.current_order_id
          /\ TableText(orders[i].table_number) = ret.arg

\* the text names no table of 1..TABLE_COUNT behind "Стол "
NoSuchTable(text) ==
    /\ startswith(text, StolPrefix)
    /\ is_int(<<text[2]>>) => ~(1 <= int(<<text[2]>>) /\ int(<<text[2]>>) <= TABLE_COUNT)

\* C7, the store: create_order of a table outside 1..TABLE_COUNT raises and
\* leaves the orders and their file as they were
C7_CreateOrderRejects ==
    (ret'.op = "create_order" /\ ~(1 <= ret'.arg /\ ret'.arg <= TABLE_COUNT)) =>
        /\ ~ret'.ok
        /\ UNCHANGED <<orders, orders_file, order_ids_issued>>

\* C7, the dialogue: a table selection that names no table of 1..TABLE_COUNT
\* is answered with the tables again, in selecting_table, and no order is made
C7_SelectionReprompts ==
    (ret'.op = "select_table" /\ NoSuchTable(ret'.arg)) =>
        /\ state = "selecting_table" /\ state' = "selecting_table"
        /\ ret'.reply_markup = "tables"
        /\ UNCHANGED <<orders, orders_file, order_ids_issued, state_data>>

\* C7, the store's content: every order, live or written, is of a table of
\* 1..TABLE_COUNT
C7_TablesInRange ==
    /\ \A i \in DOMAIN orders :
          1 <= orders[i].table_number /\ orders[i].table_number <= TABLE_COUNT
    /\ \A i \in DOMAIN orders_file :
          1 <= orders_file[i].table_number /\ orders_file[i].table_number <= TABLE_COUNT

\* C7: create_order of a table outside 1..TABLE_COUNT fails and changes
\* nothing, a table selection outside that range is asked again in
\* selecting_table and creates no order, and so every order in the store is
\* of a table of 1..TABLE_COUNT
C7_TableRange ==
    /\ []C7_TablesInRange
    /\ [][C7_CreateOrderRejects /\ C7_SelectionReprompts]_vars

\* C7's case: with an order in the store, the session selected the table
\* TABLE_COUNT + 1 and is asked for a table again
C7_Witness ==
    /\ ret.op = "select_table" /\ ret.arg = TableText(TABLE_COUNT + 1)
    /\ ret.reply_markup = "tables"
    /\ state = "selecting_table"
    /\ orders # <<>>

---------------------------------------------------------------------------
(* Properties of the files                                                 *)

\* C11: when every save has gone through, a restart loads from the files
\* exactly the catalog and the orders, lines included, that were in memory
\* before it; a closed order, which the file may still hold as an inactive
\* record, is not among the orders loaded
C11_RestartKeepsStores ==
    [][ret'.op = "restart" =>
          /\ menu_items' = menu_items
          /\ orders' = orders
          /\ \A i \in DOMAIN orders' : orders'[i].is_active]_vars

\* C12: a mutating call reports success and keeps its change in memory also
\* when its save fails, and the file is then left as it was: after add_item,
\* delete_item, create_order or close_order that changed the collection, the
\* file holds either the records just saved or what it held before the call
C12_FailedSaveKeepsFile ==
    [][/\ (menu_items' # menu_items) =>
             /\ ret'.ok
             /\ menu_file' \in {menu_records(menu_items'), menu_file}
       /\ (orders' # orders /\ ret'.op = "close_order") =>
             /\ ret'.ok
             /\ orders_file' \in {order_records(close_marked(orders, ret'.arg)),
                                  orders_file}
       /\ (orders' # orders /\ ret'.op = "create_order") =>
             /\ ret'.ok
             /\ orders_file' \in {order_records(orders'), orders_file}]_vars

\* C13: at the start, a store whose file is absent, or holds JSON that is not
\* a list, is empty and its file holds the empty list afterwards
C13_StartFromNoList ==
    [][ret'.op = "restart" =>
          /\ (menu_file \in {Absent, NotAList}) =>
                 menu_items' = <<>> /\ menu_file' = <<>>
          /\ (orders_file \in {Absent, NotAList}) =>
                 orders' = <<>> /\ orders_file' = <<>>]_vars

\* C13's case: the process has started on a menu file that was no list and
\* no orders file, and both files hold the empty list now
C13_Witness ==
    /\ ret.op = "restart"
    /\ sample.menu = NotAList /\ sample.orders = Absent
    /\ menu_file = <<>> /\ orders_file = <<>>

\* C11's case: the process has restarted over a catalog and an orders file
\* that holds the inactive record of a closed order with a line
C11_Witness ==
    /\ ret.op = "restart"
    /\ menu_items # <<>>
    /\ \E i \in DOMAIN orders_file :
          ~orders_file[i].is_active /\ orders_file[i].items # <<>>

\* the text of a table button with a number of the restaurant
ValidTableText(text) ==
    /\ startswith(text, StolPrefix)
    /\ table_parses(text)
    /\ int(<<text[2]>>) \in 1..TABLE_COUNT

\* the active orders of a table, as indices into the list
ActiveOf(os, table_number) ==
    {i \in DOMAIN os : os[i].table_number = table_number /\ os[i].is_active}

\* C16: in selecting_table the text of a valid table that has an active
\* order brings the session to managing_order with that order current and
\* creates no order; the text of a valid table without one adds exactly one
\* order to the list, active, of that table and with no lines, and brings
\* the session to selecting_main_category with that order current
C16_SelectTable ==
    [][ret'.op = "select_table" /\ ValidTableText(ret'.arg) =>
          LET table_number == int(<<ret'.arg[2]>>)
              new == orders'[Len(orders')]
          IN  /\ state = "selecting_table"
              /\ ret'.ok
              /\ IF ActiveOf(orders, table_number) # {}
                 THEN /\ orders' = orders /\ orders_file' = orders_file
                      /\ state' = "managing_order"
                      /\ \E i \in ActiveOf(orders, table_number) :
                            state_data'.current_order_id = orders[i].id
                 ELSE /\ Len(orders') = Len(orders) + 1
                      /\ SubSeq(orders', 1, Len(orders)) = orders
                      /\ new.table_number = table_number
                      /\ new.is_active
                      /\ new.items = <<>>
                      /\ \A i \in DOMAIN orders : orders[i].id # new.id
                      /\ state' = "selecting_main_category"
                      /\ state_data'.current_order_id = new.id]_vars

\* table 2 was selected when it had order 2, made after the order of table 1
C16_Witness ==
    /\ ret.op = "select_table" /\ ret.arg = TableText(2)
    /\ state = "managing_order"
    /\ state_data.current_order_id = 2
    /\ Len(orders) = 2 /\ orders[2].table_number = 2

\* the step is select_main_category taking "✅ Завершить заказ" while the
\* order of the session is in the store as order
FinishStep(order) ==
    /\ ret'.op = "select_main_category" /\ ret'.arg = FinishOrderText
    /\ order \in Range(orders)
    /\ order.id = state_data.current_order_id

\* C17: finishing in selecting_main_category when the current order has no
\* line takes the order out of the store, so that its table has no active
\* order, and brings the session to the root; after a finish the order is
\* not in the store without a line
C17_FinishEmptyOrder ==
    [][\A order \in Range(orders) : FinishStep(order) =>
          /\ state = "selecting_main_category"
          /\ order.items = <<>> =>
                /\ \A o \in Range(orders') : o.id # order.id
                /\ ActiveOf(orders', order.table_number) = {}
                /\ orders' = SelectSeq(orders, LAMBDA o : o.id # order.id)
                /\ state' = NoState
                /\ state_data' = NoData
          /\ \A o \in Range(orders') : o.id = order.id => o.items # <<>>]_vars

\* the only order made, which had no line, was finished
C17_Witness ==
    /\ ret.op = "select_main_category" /\ ret.arg = FinishOrderText
    /\ ret.id = 1
    /\ orders = <<>> /\ order_ids_issued = {1}
    /\ state = NoState

\* C18: finishing in selecting_main_category when the current order has a
\* line brings the session to the root with its data discarded, and leaves
\* the orders, the catalog and both files as they were
C18_FinishOrder ==
    [][\A order \in Range(orders) : FinishStep(order) /\ order.items # <<>> =>
          /\ state = "selecting_main_category"
          /\ state' = NoState
          /\ state_data' = NoData
          /\ UNCHANGED <<menu_items, menu_file, orders, orders_file>>]_vars

\* the order of one line was finished
C18_Witness ==
    /\ ret.op = "select_main_category" /\ ret.arg = FinishOrderText
    /\ ret.id = 1
    /\ Len(orders) = 1 /\ orders[1].id = 1 /\ orders[1].items # <<>>
    /\ state = NoState /\ state_data = NoData

\* the step is a message of the session in entering_quantity; ret'.arg is
\* its text
QuantityStateStep ==
    /\ state = "entering_quantity"
    /\ ret'.op \notin {"close_order", "delete_item"}

\* the text is a positive integer as int() reads it
PositiveInteger(text) == is_int(text) /\ int(text) >= 1

\* the texts that handlers registered before process_quantity take in
\* entering_quantity: the commands and buttons with filters on the text only
NavigationTexts ==
    {CmdStart, MainMenuText, MenuText, BackToMenuText, NewOrderText,
     ActiveOrdersText, BackToTablesText, BackToOrdersText}

\* an order of the store has other lines after the step
LinesChange ==
    \E o \in Range(orders), p \in Range(orders') : o.id = p.id /\ o.items # p.items

C19_RefusedInputStays ==
    [][/\ QuantityStateStep
       /\ ~PositiveInteger(ret'.arg)
       /\ ret'.arg \notin {BackText, CancelText} \cup NavigationTexts
       => /\ ret'.op = "process_quantity"
          /\ state' = "entering_quantity"
          /\ state_data' = state_data
          /\ UNCHANGED <<orders, orders_file>>]_vars

\* C19, the store: no text that is not a positive integer changes the
\* orders in entering_quantity, and no message of the session changes the
\* lines of an order unless it is a positive integer sent in entering_quantity
C19_LinesOnlyForPositive ==
    [][/\ QuantityStateStep /\ ~PositiveInteger(ret'.arg)
             => UNCHANGED <<orders, orders_file>>
       /\ ret'.op \notin {"close_order", "delete_item"} /\ LinesChange
             => /\ state = "entering_quantity"
                /\ PositiveInteger(ret'.arg)
                /\ ret'.quantity = int(ret'.arg)]_vars

C20_RemovedOnlyByConfirm ==
    [][\A order \in Range(orders) :
          /\ order.items # <<>>
          /\ ret'.op # "close_order"
          /\ \A o \in Range(orders') : o.id # order.id
          => /\ ret'.op = "confirm_close_order" /\ ret'.arg = ConfirmCloseText
             /\ state = "confirm_close"
             /\ state_data.current_order_id = order.id
             /\ orders' = SelectSeq(orders, LAMBDA o : o.id # order.id)]_vars

\* C20, the deny input while the order is in the store: the session is in
\* managing_order with the same order current, the store as it was; when
\* the order is no longer in the store the session stays where it is
C20_DenyKeepsOrder ==
    [][ret'.op = "cancel_close_order" =>
          /\ state = "confirm_close"
          /\ UNCHANGED <<orders, orders_file, menu_items, menu_file>>
          /\ state_data' = state_data
          /\ IF \E o \in Range(orders) : o.id = state_data.current_order_id
             THEN state' = "managing_order"
             ELSE state' = state]_vars

\* C20, entering: manage_order taking "✅ Закрыть заказ" changes the state
\* only
C20_EnteringChangesNothing ==
    [][ret'.op = "manage_order" /\ state' = "confirm_close" =>
          /\ state = "managing_order"
          /\ state_data' = state_data
          /\ UNCHANGED <<orders, orders_file, menu_items, menu_file>>]_vars

---------------------------------------------------------------------------
(* Properties of the menu dialogue                                         *)

\* the item a step has appended to the catalog
added_item == menu_items'[Len(menu_items')]

\* C14, first part: add_item called with no main category gives the item the
\* main category whose list in MENU_CATEGORIES has the item's category, and
\* "Кухня" when no list has it; on the empty catalog "Салат Цезарь" in
\* "Салаты" gets id 1 and "Кухня"
C14_DerivedMainCategory ==
    [][ret'.op = "add_item" =>
          /\ Len(menu_items') = Len(menu_items) + 1
          /\ \A m \in Range(MAIN_CATEGORIES) :
                InList(added_item.category, MENU_CATEGORIES(m))
                    => added_item.main_category = m
          /\ (\A m \in Range(MAIN_CATEGORIES) :
                ~InList(added_item.category, MENU_CATEGORIES(m)))
                    => added_item.main_category = Kuhnya
          /\ (menu_items = <<>> /\ added_item.name = SalatCezar)
                    => added_item.id = 1 /\ added_item.main_category = Kuhnya]_vars

\* C14, second part: an item the menu dialogue adds has a category of the
\* list of its main category
C14_DialogueItemsConsistent ==
    [][ret'.op = "process_item_name" /\ ret'.ok =>
          /\ Len(menu_items') = Len(menu_items) + 1
          /\ added_item.name = ret'.arg
          /\ InList(added_item.main_category, MAIN_CATEGORIES)
          /\ InList(added_item.category,
                    MENU_CATEGORIES(added_item.main_category))]_vars

\* C14: an item gets the main category of its category when none is given,
\* "Кухня" when its category is in no list, and every item added through
\* the menu dialogue, whatever the way through it, has a category that
\* belongs to its main category
C14_MainCategoryConsistent ==
    C14_DerivedMainCategory /\ C14_DialogueItemsConsistent

\* the dialogue has added an item of the bar after one of the kitchen
C14_Witness ==
    /\ ret.op = "process_item_name" /\ ret.ok
    /\ Len(menu_items) = 2
    /\ menu_items[1].main_category = Kuhnya /\ menu_items[1].category = Salaty
    /\ menu_items[2].main_category = Bar /\ menu_items[2].category = Chay
    /\ state_data.new_item_main_category = Bar

\* C15, the dispatch: in every state of both dialogues "/start" goes to
\* cmd_start and the main-menu text to return_to_main_menu, before any
\* handler of the state
C15_ResetsTakeTheMessage ==
    \A st \in SessionStates :
        /\ dispatch(st, CmdStart) = "cmd_start"
        /\ dispatch(st, MainMenuText) = "return_to_main_menu"

\* C15, the step: cmd_start and return_to_main_menu leave no state and no
\* data in the session, and the catalog, the orders and both files as they were
C15_ResetStep ==
    [][ret'.op \in {"cmd_start", "return_to_main_menu"} =>
          /\ state' = NoState
          /\ state_data' = NoData
          /\ UNCHANGED <<menu_items, menu_file, orders, orders_file>>]_vars

\* C15: from every state of the order dialogue and of the menu dialogue,
\* "/start" and the main-menu text bring the session to the root in one
\* message, with the data of the session discarded and both stores unchanged
C15_ResetToRoot == []C15_ResetsTakeTheMessage /\ C15_ResetStep

\* the session was reset after it had taken an order of one line and added
\* a second item to the catalog
C15_Witness ==
    /\ ret.op \in {"cmd_start", "return_to_main_menu"}
    /\ state = NoState /\ state_data = NoData
    /\ Len(orders) = 1 /\ Len(orders[1].items) = 1
    /\ Len(menu_items) = 2

---------------------------------------------------------------------------
(* Properties of the end of a dialogue and of texts a state does not offer *)

\* C21: "✅ Да, закрыть заказ" in confirm_close for an order of the store
\* takes the order out of the store and leaves the session with no state
\* and no data
C21_ConfirmFinalizes ==
    [][ret'.op = "confirm_close_order" /\ ret'.ok =>
          /\ state = "confirm_close"
          /\ \A o \in Range(orders') : o.id # state_data.current_order_id
          /\ state' = NoState
          /\ state_data' = NoData]_vars

\* the members of a set of positions, in increasing order
InOrder(positions) ==
    [k \in 1..Cardinality(positions) |->
        CHOOSE i \in positions : Cardinality({j \in positions : j <= i}) = k]

\* the lines of an order whose snapshot has the category, in the order of addition
LinesOfCategory(items, category) ==
    LET at == InOrder({i \in DOMAIN items : items[i].menu_item.category = category})
    IN [k \in DOMAIN at |-> <<items[at[k]].menu_item.name, items[at[k]].quantity>>]

\* the categories of the lines, each at its first occurrence
CategoriesAsAdded(items) ==
    LET at == InOrder({i \in DOMAIN items :
                          \A j \in 1..(i - 1) :
                              items[j].menu_item.category # items[i].menu_item.category})
    IN [k \in DOMAIN at |-> items[at[k]].menu_item.category]

\* the headers of a text, in the order of the text
HeadersOf(rows) ==
    LET at == InOrder({k \in DOMAIN rows : rows[k].kind = "category"})
    IN [k \in DOMAIN at |-> rows[at[k]].category]

\* the lines printed between the header at position k and the next header
LinesUnder(rows, k) ==
    LET at == InOrder({m \in DOMAIN rows :
                          /\ m > k
                          /\ \A h \in (k + 1)..m : rows[h].kind = "line"})
    IN [n \in DOMAIN at |-> <<rows[at[n]].name, rows[at[n]].quantity>>]

\* C22: the receipt of a closed order and the summary of an order show one
\* header per category of the lines' snapshots, the headers in the order in
\* which the categories first occur among the lines; under each header stand
\* exactly the lines of that category, each once with its quantity, in the
\* order in which they were added
C22_GroupedByCategory ==
    ser_pc = "text" =>
        LET items == sample.obj.items
            rows == Tail(record)
        IN /\ HeadersOf(rows) = CategoriesAsAdded(items)
           /\ \A k \in DOMAIN rows :
                 rows[k].kind = "category" =>
                     LinesUnder(rows, k) = LinesOfCategory(items, rows[k].category)
           /\ Cardinality({k \in DOMAIN rows : rows[k].kind = "line"}) = Len(items)
           /\ items # <<>> => rows[1].kind = "category"

C22_Witness ==
    /\ ser_pc = "text"
    /\ sample.kind = "receipt"
    /\ sample.obj.items = <<OrderItem(ReceiptItems[1], 2), OrderItem(ReceiptItems[2], 1),
                            OrderItem(ReceiptItems[3], 1)>>
    /\ Tail(record) = <<[kind |-> "category", category |-> Salaty],
                        [kind |-> "line", i |-> 1, name |-> Cezar, quantity |-> 2],
                        [kind |-> "line", i |-> 2, name |-> SalatCezar, quantity |-> 1],
                        [kind |-> "category", category |-> Chay],
                        [kind |-> "line", i |-> 1, name |-> Mohito, quantity |-> 1]>>

\* the states of the menu dialogue in which the session chooses from a keyboard
MenuSelectionStates ==
    {"main_menu", "edit_menu", "adding_item_main_category", "adding_item_category",
     "deleting_main_category", "deleting_category", "deleting_item_select",
     "confirm_delete"}

\* the texts of the keyboard of a state of the menu dialogue, for the data
\* of the session and the catalog as they are
OfferedInMenu(st, data, items) ==
    CASE st = "main_menu" -> {EditMenuText, MainMenuText}
      [] st = "edit_menu" -> {AddItemText, DeleteItemText, BackToMenuText}
      [] st \in {"adding_item_main_category", "deleting_main_category"}
            -> Range(MAIN_CATEGORIES) \cup {BackText}
      [] st = "adding_item_category"
            -> Range(MENU_CATEGORIES(data.new_item_main_category)) \cup {BackText}
      [] st = "deleting_category"
            -> Range(MENU_CATEGORIES(data.delete_main_category)) \cup {BackText}
      [] st = "deleting_item_select"
            -> {i.name : i \in Range(get_menu_items_by_category(items,
                                                               data.delete_category))}
               \cup {BackText}
      [] st = "confirm_delete" -> {YesText, NoText}
      [] OTHER -> {}

\* the step is a message of the session, not a call on a store from elsewhere
MessageStep ==
    ret'.op \notin {"add_item", "delete_item", "create_order", "close_order",
                    "add_line", "restart"}

\* C23 as stated: in the selection states of the menu dialogue a text that
\* the keyboard of the state does not offer (the reset texts "/start" and
\* main menu apart) leaves the state of the session and the catalog as they were
C23_UnofferedInputStays ==
    [][/\ MessageStep
       /\ state \in MenuSelectionStates
       /\ ret'.arg \notin OfferedInMenu(state, state_data, menu_items)
                             \cup {CmdStart, MainMenuText}
       => /\ state' = state
          /\ UNCHANGED <<menu_items, menu_file>>]_vars

\* the states of the order dialogue in which the session chooses from a keyboard
OrderSelectionStates ==
    {"selecting_table", "selecting_main_category", "selecting_category",
     "selecting_menu_item", "viewing_order", "managing_order", "confirm_close"}

\* the texts of the keyboard of a state of the order dialogue, for the data
\* of the session, the orders and the catalog as they are
OfferedInOrder(st, data, os, items) ==
    CASE st = "selecting_table"
            -> {TableText(j) : j \in 1..TABLE_COUNT} \cup {MainMenuText}
      [] st = "selecting_main_category"
            -> Range(MAIN_CATEGORIES) \cup {FinishOrderText, BackToTablesText}
      [] st = "selecting_category"
            -> Range(MENU_CATEGORIES(data.current_main_category))
               \cup {BackToMainCategoriesText}
      [] st = "selecting_menu_item"
            -> {i.name : i \in Range(get_menu_items_by_category(items,
                                                               data.current_category))}
               \cup {BackToSubcategoriesText}
      [] st = "viewing_order" -> DOMAIN data.active_orders \cup {MainMenuText}
      [] st = "managing_order"
            -> {BackToOrdersText} \cup
               UNION {{AddLinesText(o), CloseOrderText(o)} :
                         o \in {p \in Range(os) : p.id = data.current_order_id}}
      [] st = "confirm_close" -> {ConfirmCloseText, CancelCloseText}
      [] OTHER -> {}

\* C24 as stated: in the selection states of the order dialogue a text that
\* the keyboard of the state does not offer (the reset texts "/start" and
\* main menu apart) changes neither the state of the session nor the catalog
\* nor the orders
C24_UnofferedInputStays ==
    [][/\ MessageStep
       /\ state \in OrderSelectionStates
       /\ ret'.arg \notin OfferedInOrder(state, state_data, orders, menu_items)
                             \cup {CmdStart, MainMenuText}
       => /\ state' = state
          /\ UNCHANGED <<menu_items, menu_file, orders, orders_file>>]_vars

\* C25 as stated: select_menu_item goes on to entering_quantity only for a
\* text that is the name of an item of the current category, and the
\* current item is then an item of exactly that name
C25_ExactItemChosen ==
    [][ret'.op = "select_menu_item" /\ state' = "entering_quantity" =>
          \E item \in Range(get_menu_items_by_category(menu_items,
                                                       state_data.current_category)) :
              /\ item.name = ret'.arg
              /\ item.id = state_data'.current_item_id]_vars

\* the state, the text of its Back button and the state before it
BackEdges ==
    {<<"edit_menu", BackToMenuText, "main_menu">>,
     <<"adding_item_main_category", BackText, "edit_menu">>,
     <<"adding_item_category", BackText, "adding_item_main_category">>,
     <<"adding_item_name", BackText, "adding_item_category">>,
     <<"deleting_main_category", BackText, "edit_menu">>,
     <<"deleting_category", BackText, "deleting_main_category">>,
     <<"deleting_item_select", BackText, "deleting_category">>,
     <<"selecting_category", BackToMainCategoriesText, "selecting_main_category">>,
     <<"selecting_menu_item", BackToSubcategoriesText, "selecting_category">>,
     <<"entering_quantity", BackText, "selecting_menu_item">>}

\* C26: the Back button of a state moves the session to the state before it
\* and changes neither the catalog nor the orders nor their files; the data
\* of the session, with the selections made so far, stays as it was
C26_BackToParent ==
    [][\A e \in BackEdges :
          MessageStep /\ state = e[1] /\ ret'.arg = e[2] =>
              /\ state' = e[3]
              /\ state_data' = state_data
              /\ UNCHANGED <<menu_items, menu_file, orders, orders_file>>]_vars

\* Back was pressed at the choice of the item to delete, with main category
\* and category chosen, during an order with a line
C26_Witness ==
    /\ ret.op = "confirm_delete_item"
    /\ ret.arg = BackText
    /\ state = "deleting_category"
    /\ state_data.delete_main_category = Kuhnya
    /\ state_data.delete_category = Salaty
    /\ \E o \in Range(orders) : o.items # <<>>

\* C27: in the delete dialogue a subcategory of the chosen main category
\* that has no items brings the session back to edit_menu; the choice of
\* the item is entered only for a subcategory with at least one item; the
\* catalog stays as it was either way
C27_EmptyCategoryReturns ==
    [][ret'.op = "select_delete_category" /\ ret'.arg # BackText =>
          LET valid == InList(ret'.arg, MENU_CATEGORIES(state_data.delete_main_category))
              items == get_menu_items_by_category(menu_items, ret'.arg)
          IN /\ state = "deleting_category"
             /\ UNCHANGED <<menu_items, menu_file>>
             /\ valid /\ items = <<>> => state' = "edit_menu"
             /\ state' = "deleting_item_select" => valid /\ items # <<>>
             /\ valid /\ items # <<>> =>
                   /\ state' = "deleting_item_select"
                   /\ state_data'.delete_category = ret'.arg]_vars

\* "Салаты" was chosen for deleting after its only item had been deleted
C27_Witness ==
    /\ ret.op = "select_delete_category"
    /\ ret.arg = Salaty
    /\ state = "edit_menu"
    /\ get_menu_items_by_category(menu_items, Salaty) = <<>>
    /\ state_data.delete_main_category = Kuhnya

\* C28: a name typed in adding_item_name adds exactly one item to the end of
\* the catalog, with that name and the category and main category of the
\* data of the session, under an id no item of the catalog has; the other
\* items stay as they were and the session returns to edit_menu; a name that
\* an item already has is taken like any other
C28_NameCommits ==
    [][ret'.op = "process_item_name" /\ ret'.arg # BackText =>
          /\ state = "adding_item_name"
          /\ menu_items' = Append(menu_items, added_item)
          /\ added_item.name = ret'.arg
          /\ added_item.category = state_data.new_item_category
          /\ added_item.main_category = state_data.new_item_main_category
          /\ InList(added_item.category, MENU_CATEGORIES(added_item.main_category))
          /\ \A i \in Range(menu_items) : i.id # added_item.id
          /\ menu_file' = menu_records(menu_items')
          /\ UNCHANGED <<orders, orders_file>>
          /\ state' = "edit_menu"]_vars

\* the dialogue has added a second "Цезарь", to the bar, beside the first
C28_Witness ==
    /\ ret.op = "process_item_name"
    /\ ret.arg = Cezar
    /\ state = "edit_menu"
    /\ Len(menu_items) = 2
    /\ menu_items[1].name = Cezar
    /\ menu_items[2].name = Cezar
    /\ menu_items[1].id # menu_items[2].id
    /\ menu_items[2].main_category = Bar
    /\ menu_items[2].category = Chay

\* C29 as stated: both answers in confirm_delete bring the session to
\* edit_menu; "✅ Да" removes the pending item and no other, "❌ Нет"
\* leaves the catalog as it was
C29_BothReturnToEditMenu ==
    [][ret'.op = "final_delete_item" /\ ret'.arg \in {YesText, NoText} =>
          /\ state = "confirm_delete"
          /\ state' = "edit_menu"
          /\ ret'.arg = YesText =>
                menu_items' = SelectSeq(menu_items,
                                        LAMBDA i : i.id # state_data.delete_item_id)
          /\ ret'.arg = NoText => UNCHANGED <<menu_items, menu_file>>]_vars

\* C29, amended: in confirm_delete "✅ Да" removes from the catalog the item
\* whose id is pending, and no other, and brings the session to edit_menu;
\* "❌ Нет" leaves the catalog and the data of the session as they were and
\* brings the session back to the choice of the item, deleting_item_select
C29_ConfirmDelete ==
    [][ret'.op = "final_delete_item" /\ ret'.arg \in {YesText, NoText} =>
          /\ state = "confirm_delete"
          /\ ret'.arg = YesText =>
                /\ state' = "edit_menu"
                /\ menu_items' = SelectSeq(menu_items,
                                           LAMBDA i : i.id # state_data.delete_item_id)
                /\ Len(menu_items') = Len(menu_items) - 1
          /\ ret'.arg = NoText =>
                /\ state' = "deleting_item_select"
                /\ state_data' = state_data
                /\ UNCHANGED <<menu_items, menu_file>>]_vars

\* of two items named "Цезарь" the first was deleted and the second is left
C29_Witness ==
    /\ ret.op = "final_delete_item"
    /\ ret.arg = YesText
    /\ ret.id = 1
    /\ state = "edit_menu"
    /\ Len(menu_items) = 1
    /\ menu_items[1].id = 2
    /\ menu_items[1].name = Cezar

\* the states in which the handlers use the order of current_order_id
NeedOrderStates ==
    {"selecting_main_category", "entering_quantity", "managing_order", "confirm_close"}

\* the handler of the step looks for the order or the item of the session's
\* data and does not find it
FindsMissing ==
    LET no_order == order_index(orders, state_data.current_order_id) = 0
        no_item == item_index(menu_items, state_data.current_item_id) = 0
    IN \/ ret'.op = "select_main_category" /\ ret'.arg = FinishOrderText /\ no_order
       \/ ret'.op = "process_quantity" /\ PositiveInteger(ret'.arg)
              /\ (no_order \/ no_item)
       \/ ret'.op = "manage_order" /\ ret'.arg # BackToOrdersText /\ no_order
       \/ ret'.op \in {"confirm_close_order", "cancel_close_order"} /\ no_order

\* C30 as stated: a message that finds the order or the item of the session
\* missing changes neither store and leaves the session in none of the
\* states that use that order or item
C30_MissingLeadsToSafeState ==
    [][FindsMissing =>
          /\ UNCHANGED <<menu_items, menu_file, orders, orders_file>>
          /\ state' \notin NeedOrderStates]_vars

---------------------------------------------------------------------------
(* Properties of the states of the dialogues and of several sessions       *)

\* C31: from the root with an empty catalog and no orders, the messages of
\* the tour bring the session into each of the eight states of OrderStates
\* and each of the nine states of MenuStates
C31_EveryStateReached ==
    \A st \in SessionStates \ {NoState} : <>(state = st)

\* the end of the tour: the order taken from the item the session added
\* has been closed from confirm_close
C31_Witness ==
    /\ ret.op = "confirm_close_order"
    /\ ret.ok
    /\ state = "confirm_close"
    /\ orders = <<>>
    /\ Len(menu_items) = 1
    /\ menu_items[1].main_category = Bar

\* C32 as stated, for a session that selects the order of table 1 only, by
\* the table or by its label among the active orders: an order that a
\* message of the session removes or changes is an order of table 1,
\* whatever orders are created and closed from elsewhere
C32_ReferenceKeepsItsTable ==
    [][MessageStep =>
          \A o \in Range(orders) :
              o \notin Range(orders') => o.table_number = 1]_vars

\* the lines of order list os that order list ps does not hold as they are
LinesTouched(ps, os) ==
    UNION {{l \in Range(os[i].items) :
               \A j \in DOMAIN ps : l \notin Range(ps[j].items)} : i \in DOMAIN os}

\* C33 as stated, for a session that chooses and names "Цезарь" only: the
\* line a quantity entry adds or raises is a line of "Цезарь" in the
\* category the session chose it from, and the item a confirmed deletion
\* removes has the name the confirmation prompt gave, whatever is deleted
\* from and added to the catalog from elsewhere in between
C33_CommitsTheSelection ==
    [][/\ ret'.op = "process_quantity" =>
              \A l \in LinesTouched(orders, orders') :
                  /\ l.menu_item.name = Cezar
                  /\ l.menu_item.category = state_data.current_category
       /\ ret'.op = "final_delete_item" =>
              \A m \in Range(menu_items) \ Range(menu_items') :
                  m.name = state_data.delete_item_name]_vars

\* C34 as stated: after item m is added with quantity q to order o, o holds
\* a line whose snapshot has m's name and category and whose quantity is at
\* least q, and a line whose quantity the addition raised has m's name and
\* category in its snapshot, whatever was deleted from and added to the
\* catalog before
C34_LineOfTheItem ==
    [][ret'.op = "add_line" /\ ret'.ok =>
          LET o == order_index(orders, ret'.arg)
              m == menu_items[item_index(menu_items, ret'.id)]
              same(l) == /\ l.menu_item.name = m.name
                         /\ l.menu_item.category = m.category
          IN  /\ \E l \in Range(orders'[o].items) :
                     same(l) /\ l.quantity >= ret'.quantity
              /\ \A i \in DOMAIN orders[o].items :
                     orders'[o].items[i].quantity > orders[o].items[i].quantity
                         => same(orders[o].items[i])]_vars

\* C35 as stated: whenever the session is at the root, every active order
\* holds at least one line
C35_NoEmptyOrderAtRoot ==
    state = NoState => \A o \in Range(orders) : o.items # <<>>

\* C36 as stated: a response that offers the main keyboard leaves the
\* session at the root, and one that offers the edit-menu keyboard leaves it
\* in the state edit_menu
C36_OptionsMatchState ==
    /\ ret.reply_markup = "main" => state = NoState
    /\ ret.reply_markup = "edit_menu" => state = "edit_menu"

\* the response before this step listed the active orders as they are now
OrdersJustListed ==
    /\ state = "viewing_order"
    /\ ret.op \in {"show_active_orders", "view_order"}
    /\ ret.reply_markup = "active_orders"

\* C37 as stated: in the state viewing_order a label that the last response
\* offered is accepted and opens the state managing_order with the order
\* that is active at the table the label names
C37_OfferedLabelOpens ==
    [][OrdersJustListed /\ MessageStep
         /\ (\E o \in Range(orders) : ret'.arg = OrderKey(o)) =>
          /\ state' = "managing_order"
          /\ \E o \in Range(orders) : /\ ret'.arg = OrderKey(o)
                                      /\ o.id = state_data'.current_order_id]_vars

\* state and data of chat c
SessionOf(c) == IF c = chat THEN Session(state, state_data) ELSE storage[c]

QuantityHeld(order, item_id) ==
    LET k == FirstOr0({i \in DOMAIN order.items :
                          order.items[i].menu_item.id = item_id})
    IN  IF k = 0 THEN 0 ELSE order.items[k].quantity

\* no table has two active orders, and no two live orders and no two items
\* of the catalog have the same id
C39_StoresConsistent ==
    /\ \A i, j \in DOMAIN orders :
          i # j => /\ orders[i].id # orders[j].id
                   /\ orders[i].is_active /\ orders[j].is_active
                         => orders[i].table_number # orders[j].table_number
    /\ \A i, j \in DOMAIN menu_items : i # j => menu_items[i].id # menu_items[j].id

\* an order that stays in the list keeps its lines with at least their
\* quantities, and the step of a handler that adds quantity q of an item
\* raises the order's quantity of that item by q
C39_NoAdditionLost ==
    /\ \A i \in DOMAIN orders :
          LET j == order_index(orders', orders[i].id)
          IN  j # 0 =>
                 \A k \in DOMAIN orders[i].items :
                    /\ k \in DOMAIN orders'[j].items
                    /\ orders'[j].items[k].menu_item = orders[i].items[k].menu_item
                    /\ orders'[j].items[k].quantity >= orders[i].items[k].quantity
    /\ waits("get_data") /\ tasks'[chat].pc = "added_set_state" =>
          LET o == order_index(orders, state_data.current_order_id)
              item_id == state_data.current_item_id
          IN  QuantityHeld(orders'[o], item_id)
                  = QuantityHeld(orders[o], item_id) + tasks[chat].quantity

\* C39: with the handlers of two chats run from await to await in any
\* order, no table has two active orders, ids are unique among the live
\* orders and among the catalog items, and no line or quantity that a
\* handler added is lost
C39_StoreStepsAtomic == []C39_StoresConsistent /\ [][C39_NoAdditionLost]_vars

\* the handlers of both chats have added one of the same item to the same
\* order, neither has answered yet, and the line holds both
C39_Witness ==
    /\ \A c \in Chats : tasks[c].pc \in {"added_set_state", "added_answer"}
    /\ tasks[1].order_id = tasks[2].order_id
    /\ \E o \in Range(orders) :
          /\ o.id = tasks[1].order_id
          /\ Len(o.items) = 1
          /\ o.items[1].quantity = tasks[1].quantity + tasks[2].quantity

---------------------------------------------------------------------------
(* Properties of the stores                                                *)

LineIds(order) == [i \in DOMAIN order.items |-> order.items[i].menu_item.id]

\* the quantity order holds of the item with this id, 0 when it has no line of it
QuantityOf(order, item_id) ==
    LET I == {i \in DOMAIN order.items : order.items[i].menu_item.id = item_id}
    IN  IF I = {} THEN 0 ELSE order.items[CHOOSE i \in I : TRUE].quantity

IsPrefix(s, t) == Len(s) <= Len(t) /\ \A i \in DOMAIN s : s[i] = t[i]

\* a step of add_line that added a quantity
AddLineStep == ret'.op = "add_line" /\ ret'.ok /\ orders' # orders

\* C2, the lines of every order: one line per menu item id, quantities >= 1
C2_LinesWellFormed ==
    \A o \in DOMAIN orders :
        /\ \A i, j \in DOMAIN orders[o].items :
              orders[o].items[i].menu_item.id = orders[o].items[j].menu_item.id
                 => i = j
        /\ \A i \in DOMAIN orders[o].items : orders[o].items[i].quantity >= 1

\* C2, one addition of quantity q of the item with id m to an order: the
\* order's quantity of m grows by exactly q (a second addition of the same
\* item makes the line q1+q2), the lines already there keep their places and
\* their quantities, and a line for a new item is added at the end
C2_AdditionAggregates ==
    \A o \in DOMAIN orders :
        (AddLineStep /\ orders[o].id = ret'.arg) =>
            /\ QuantityOf(orders'[o], ret'.id) =
                  QuantityOf(orders[o], ret'.id) + ret'.quantity
            /\ IsPrefix(LineIds(orders[o]), LineIds(orders'[o]))
            /\ LineIds(orders'[o]) =
                  IF InList(ret'.id, LineIds(orders[o]))
                  THEN LineIds(orders[o])
                  ELSE Append(LineIds(orders[o]), ret'.id)
            /\ \A i \in DOMAIN orders[o].items :
                  orders[o].items[i].menu_item.id # ret'.id
                     => orders'[o].items[i] = orders[o].items[i]
            /\ \A k \in DOMAIN orders : k # o => orders'[k] = orders[k]

\* C2: adding the same menu item to an order twice leaves one line with the
\* sum of the quantities; an order has at most one line per menu item id,
\* every quantity is >= 1, and the lines keep their relative order
C2_AddItemAggregates == []C2_LinesWellFormed /\ [][C2_AdditionAggregates]_vars

\* C2's case: an order of two lines, the item just added being one that was
\* in it already
C2_Witness ==
    /\ ret.op = "add_line" /\ ret.ok
    /\ \E o \in DOMAIN orders :
          /\ orders[o].id = ret.arg
          /\ Len(orders[o].items) = 2
          /\ QuantityOf(orders[o], ret.id) > ret.quantity

\* C3: add_item gives id 1 in an empty catalog and max(existing ids)+1
\* otherwise, and never an id that an earlier add_item has given, whatever
\* was deleted in between
C3_ItemIdsNeverReused ==
    [][ret'.op = "add_item" /\ menu_items' # menu_items =>
          /\ ret'.id = (IF menu_items = <<>> THEN 1
                        ELSE MaxOr0({menu_items[i].id : i \in DOMAIN menu_items}) + 1)
          /\ ret'.id \notin item_ids_issued]_vars

\* C4: every order created gets an id strictly greater than the id of every
\* order created before it, the closed ones included
C4_OrderIdsMonotonic ==
    [][ret'.op = "create_order" /\ Len(orders') = Len(orders) + 1 =>
          \A i \in order_ids_issued : ret'.id > i]_vars

\* C5, a step of close_order(id): on a known order it returns true and the
\* order is gone from orderById, activeOrders and activeOrderForTable; the
\* same call right after a successful one returns false and changes nothing
C5_CloseStep ==
    /\ (ret'.op = "close_order" /\ ret' # ret /\ order_index(orders, ret'.arg) # 0) =>
          /\ ret'.ok
          /\ order_index(orders', ret'.arg) = 0
          /\ \A i \in DOMAIN get_active_orders(orders') :
                get_active_orders(orders')[i].id # ret'.arg
          /\ table_order_index(orders',
                orders[order_index(orders, ret'.arg)].table_number) = 0
    /\ (ret.op = "close_order" /\ ret.ok /\ ret'.op = "close_order"
           /\ ret'.arg = ret.arg /\ ret' # ret) =>
          /\ ~ret'.ok
          /\ orders' = orders

\* C5: closeOrder on a known order returns true and makes it unreachable, a
\* second closeOrder returns false and changes nothing, and the collection
\* never holds an order that is not active
C5_CloseOrder ==
    /\ [](\A i \in DOMAIN orders : orders[i].is_active)
    /\ [][C5_CloseStep]_vars

\* C5's case: an order that had a line has been closed
C5_Witness ==
    /\ ret.op = "close_order" /\ ret.ok
    /\ \E i \in DOMAIN orders_file :
          /\ orders_file[i].id = ret.arg
          /\ ~orders_file[i].is_active
          /\ orders_file[i].items # <<>>
    /\ order_index(orders, ret.arg) = 0

\* C6: createOrder(t) for a table that has an active order returns that
\* order and changes nothing; for a table without one it adds exactly one
\* order, active and without lines
C6_CreateOrderIdempotent ==
    [][(ret'.op = "create_order" /\ ret'.ok) =>
          IF table_order_index(orders, ret'.arg) # 0
          THEN /\ orders' = orders
               /\ orders_file' = orders_file
               /\ ret'.id = orders[table_order_index(orders, ret'.arg)].id
          ELSE /\ Len(orders') = Len(orders) + 1
               /\ IsPrefix(orders, orders')
               /\ orders'[Len(orders')].id = ret'.id
               /\ orders'[Len(orders')].table_number = ret'.arg
               /\ orders'[Len(orders')].is_active
               /\ orders'[Len(orders')].items = <<>>]_vars

\* C6's case: createOrder has returned an order that has lines, so one that
\* was there before the call
C6_Witness ==
    /\ ret.op = "create_order" /\ ret.ok
    /\ \E o \in DOMAIN orders : orders[o].id = ret.id /\ orders[o].items # <<>>

\* C8: deleteItem of an id that is not in the catalog returns false and
\* leaves the catalog as it is; of an id that is, it returns true and
\* removes that item and no other
C8_DeleteItem ==
    [][ret'.op = "delete_item" =>
          IF \A i \in DOMAIN menu_items : menu_items[i].id # ret'.arg
          THEN ~ret'.ok /\ menu_items' = menu_items /\ menu_file' = menu_file
          ELSE /\ ret'.ok
               /\ Len(menu_items') = Len(menu_items) - 1
               /\ menu_items' =
                     SelectSeq(menu_items, LAMBDA it : it.id # ret'.arg)]_vars

\* C8's case: a deleteItem that found no such id in a catalog that has items
C8_Witness ==
    /\ ret.op = "delete_item" /\ ~ret.ok
    /\ menu_items # <<>>

\* C9: a call that changes the catalog (deleteItem, addItem) changes no
\* order: every order keeps its lines, their snapshots and their quantities
C9_CatalogChangesKeepOrders ==
    [][ret'.op \in {"delete_item", "add_item"} =>
          orders' = orders /\ orders_file' = orders_file]_vars

\* C9's case: the item of an order's line has been deleted from the catalog
C9_Witness ==
    /\ ret.op = "delete_item" /\ ret.ok
    /\ \E o \in DOMAIN orders : InList(ret.arg, LineIds(orders[o]))
    /\ item_index(menu_items, ret.arg) = 0

=============================================================================
